---- MODULE Spec2Model ----
(***************************************************************************)
(* The orchestration loop of dacli (core/agent.py, DACLI.process_message   *)
(* and DACLI._execute_tool), the message side of its memory store          *)
(* (core/memory.py, AgentMemory) and the rendering of tool results         *)
(* (tools/Base.py, ToolResult.to_message).                                 *)
(*                                                                         *)
(* Python strings are TLA+ strings, Python lists are sequences, Python     *)
(* dicts with fixed keys are records, Python dicts with computed keys are   *)
(* functions.  Python's None is the value None.  Durations and the time    *)
(* stamps of messages and log records are left out: no decision of the     *)
(* code reads them.  File writes of the store (_save_history, _save_state) *)
(* are taken to succeed.                                                   *)
(*                                                                         *)
(* Spec is the orchestration loop; time stands still in it.  StoreSpec is  *)
(* the store driven through its own operations, as the command line and    *)
(* the loop drive it, one reading of the clock per call.                   *)
(***************************************************************************)
EXTENDS Integers, Sequences, FiniteSets, TLC

\* ---------------------------------------------------------------- bounds
MaxIterations == 2      \* settings.agent.max_iterations ranges over 1..MaxIterations
MaxWindow == 2          \* settings.agent.memory_window ranges over 1..MaxWindow
MaxBatch == 2           \* most tool calls the adapter returns in one turn
MaxInvocations == 2     \* process_message invocations in one session
MaxToolLog == 2         \* most tool calls dispatched in one session
FewRows == 2            \* rows of a small result set
ManyRows == 21          \* rows of a large result set (fetch_limit is 100)
MaxStoreCalls == 4      \* calls on the store in one run of StoreSpec

\* ------------------------------------------------------- program constants
MinMaxIterations == 1   \* Field(default=100, ge=1)
MinMemoryWindow == 1    \* Field(default=10, ge=1)
DisplayRows == 20       \* self.data[:20]

VARIABLES
    max_iterations,         \* DACLI._max_iterations
    memory_window,          \* AgentMemory.memory_window
    on_user_input_needed,   \* TRUE iff DACLI._on_user_input_needed is registered
    memory_messages,        \* AgentMemory._messages, the persisted history
    tool_history,           \* AgentMemory._tool_history
    pc,                     \* where process_message stands: "idle", "loop", "tools"
    messages,               \* the local working context of process_message
    current_iteration,      \* DACLI._current_iteration
    content,                \* the text of the adapter's last answer
    tool_calls,             \* the tool calls of the adapter's last answer
    tool_index,             \* position of the for loop over tool_calls
    tool_results,           \* the local list tool_results
    response,               \* what the last process_message returned
    adapter_calls,          \* llm.generate calls made by the current invocation
    dispatched,             \* calls handed to _execute_tool for the current batch:
                            \* the id, and what the world outside did
    history_before,         \* _messages when the current invocation began
    last_turn,              \* how the last llm.generate call of the invocation ended
    invocations,            \* process_message invocations begun so far
    session_id,             \* AgentMemory._session_id
    state,                  \* AgentMemory._state
    state_files,            \* the files state_<id>.json under state_path, by id
    history_files,          \* the files history_<id>.json under history_path, by id
    clock,                  \* what datetime.now() reads
    last_call,              \* the last call on the store and how it ended
    adapter,                \* the LLMClient of the agent and the calls made on it
    interactive,            \* run_interactive: where it stands and the hooks it has invoked
    server,                 \* server.py: _agent_cache and the invoke requests in flight
    sessions,               \* the stores of the sessions of one host process and their directories
    rendering,              \* the last ToolResult.to_message call and how it ended
    executed,               \* the last _execute_tool call made on its own, and its result
    catalogue               \* DACLI.tools_settings, DACLI._tools and the list last
                            \* handed to the adapter

vars == <<max_iterations, memory_window, on_user_input_needed, memory_messages,
          tool_history, pc, messages, current_iteration, content, tool_calls,
          tool_index, tool_results, response, adapter_calls, dispatched,
          history_before, last_turn, invocations, session_id, state, state_files,
          history_files, clock, last_call, adapter, interactive, server,
          sessions, rendering, executed, catalogue>>

\* ------------------------------------------------------------ Python values
None == "<None>"

\* str(x) of a string or of None
PyStr(x) == IF x = None THEN "None" ELSE x

Min(a, b) == IF a < b THEN a ELSE b
Max(a, b) == IF a > b THEN a ELSE b

\* s[start:] of a Python list, for any integer start
PySliceFrom(s, start) ==
    LET n == Len(s)
        lo == IF start < 0 THEN Max(n + start, 0) ELSE Min(start, n)
    IN  SubSeq(s, lo + 1, n)

\* -------------------------------------------------------- tools/Base.py
SUCCESS == "sucess"
ERROR == "error"
TIMEOUT == "timeout"
CANCELLED == "cancelled"
PENDING_APPROVAL == "pending_approval"

\* The payload of a ToolResult: None, a list of n dict rows, a list of n
\* strings, or a dict of n keys.  repr is str() of the payload.
NoData == [kind |-> "none", n |-> 0, repr |-> "None"]
ListData(n) == [kind |-> "list", n |-> n, repr |-> IF n = 0 THEN "[]" ELSE "[...]"]
DictData(repr) == [kind |-> "dict", n |-> 1, repr |-> repr]
EmptyDictData == [kind |-> "dict", n |-> 0, repr |-> "{}"]
NamesData(n) == [kind |-> "names", n |-> n, repr |-> IF n = 0 THEN "[]" ELSE "['...']"]

\* isinstance(data, list)
IsList(data) == data.kind \in {"list", "names"}

\* bool(data)
DataTruthy(data) == data.n > 0

ToolResult(tool_name, status, data, error) ==
    [tool_name |-> tool_name, status |-> status, data |-> data, error |-> error]

success(result) == result.status = SUCCESS

\* str(row) of the i-th row of a result set
RowText(i) == "{'ID': " \o ToString(i) \o "}"

RECURSIVE RowLines(_, _)
RowLines(i, n) ==
    IF i > n THEN ""
    ELSE (IF i > 1 THEN "\n" ELSE "") \o " Row " \o ToString(i) \o ": "
         \o RowText(i) \o RowLines(i + 1, n)

TypeErrorText == "unsupported operand type(s) for -: 'list' and 'int'"

\* ToolResult._format_data: the text, or the TypeError of len(self.data - 20).
\* A list whose first element is no dict falls through to str(self.data).
FormatData(data) ==
    IF IsList(data) /\ data.n > 0 /\ data.kind = "list"
    THEN IF data.n > DisplayRows
         THEN [raised |-> TRUE, text |-> TypeErrorText]
         ELSE [raised |-> FALSE, text |-> RowLines(1, Min(data.n, DisplayRows))]
    ELSE [raised |-> FALSE, text |-> data.repr]

\* ToolResult.to_message
ToMessage(result) ==
    LET tag == "[" \o result.tool_name \o "]"
        fd == FormatData(result.data)
    IN  IF success(result)
        THEN IF IsList(result.data)
             THEN IF result.data.n = 0
                  THEN [raised |-> FALSE,
                        text |-> tag \o " Executed successfully. No results returned"]
                  ELSE IF fd.raised THEN fd
                       ELSE [raised |-> FALSE,
                             text |-> tag \o " Executed successfully. Returned "
                                      \o ToString(result.data.n) \o " rows:\n" \o fd.text]
             ELSE IF DataTruthy(result.data)
                  THEN [raised |-> FALSE,
                        text |-> tag \o " Executed successfully:\n" \o fd.text]
                  ELSE [raised |-> FALSE, text |-> tag \o " Executed successfully."]
        ELSE [raised |-> FALSE,
              text |-> tag \o " failed with error: " \o PyStr(result.error)]

\* No call of to_message yet
NotRendered ==
    [done |-> FALSE, result |-> ToolResult("", ERROR, NoData, None),
     out |-> [raised |-> FALSE, text |-> ""]]

\* to_message called on result: what it returned, or what it raised
Rendered(result) == [done |-> TRUE, result |-> result, out |-> ToMessage(result)]

\* -------------------------------------------------------- core/memory.py
Message(role, text) == [role |-> role, content |-> text]

\* The user turn left out of the history
AddMessage_AssistantOnly(msgs, role, text) ==
    IF role = "assistant" THEN Append(msgs, [role |-> role, content |-> text]) ELSE msgs

\* The message put at the front of the history: insert(0, message)
AddMessage_AtFront(msgs, role, text) == <<[role |-> role, content |-> text]>> \o msgs

\* AgentMemory.add_message: append (and save)
AddMessage(msgs, role, text) == Append(msgs, Message(role, text))

\* The window taken from the front of the history: self._messages[:window]
GetContextMessages_FromFront(msgs, window) ==
    LET windowed == SubSeq(msgs, 1, Min(window, Len(msgs)))
    IN  [i \in 1..Len(windowed) |->
            [role |-> windowed[i].role, content |-> windowed[i].content]]

\* AgentMemory.get_context_messages: self._messages[-self.memory_window:]
GetContextMessages(msgs, window) ==
    LET windowed == PySliceFrom(msgs, 0 - window)
    IN  [i \in 1..Len(windowed) |->
            [role |-> windowed[i].role, content |-> windowed[i].content]]

\* Only failures are logged.
LogToolExecution_ErrorsOnly(log, tool_name, input_params, result, error) ==
    IF error = None THEN log
    ELSE Append(log, [tool_name |-> tool_name, status |-> "error",
                      input_params |-> input_params, result |-> result,
                      error |-> error])

\* AgentMemory.log_tool_execution
LogToolExecution(log, tool_name, input_params, result, error) ==
    Append(log, [tool_name |-> tool_name,
                 status |-> IF error = None THEN "success" ELSE "error",
                 input_params |-> input_params,
                 result |-> result,
                 error |-> error])

\* ------------------------------------------- core/memory.py, the session
\* bool(x) of a string or None
Truthy(x) == x # None /\ x # ""

\* x in xs, of a Python list
Contains(xs, x) == \E i \in 1..Len(xs) : xs[i] = x

\* An empty Python dict
EmptyDict == [k \in {} |-> None]

\* d[key] = value
DictSet(d, key, value) == (key :> value) @@ d

\* datetime.now().isoformat() when the clock reads t
IsoFormat(t) == "2024-01-01T00:00:0" \o ToString(t)

\* datetime.now().strftime("%Y%m%d_%H%M%S") when the clock reads t
SessionIdAt(t) == "20240101_00000" \o ToString(t)

\* PhaseStatus
NOT_STARTED == "not_started"
IN_PROGRESS == "in_progress"
COMPLETED == "completed"
FAILED == "failed"
PAUSED == "paused"

\* asdict(PhaseProgress(phase_name=..., total_steps=...))
PhaseProgress(phase_name, total_steps) ==
    [phase_name |-> phase_name, status |-> NOT_STARTED, total_steps |-> total_steps,
     current_step |-> 0, steps_completed |-> <<>>, errors |-> <<>>,
     started_at |-> None, completed_at |-> None]

\* self._state is None
NoState == <<>>

\* AgentMemory._create_new_state
CreateNewState(id, now) ==
    [session_id |-> id, created_at |-> now, updated_at |-> now,
     current_phase |-> "Initialization",
     phases |-> ("phase_0_infrastructure" :> PhaseProgress("Infrastructure Setup", 9))
                @@ ("phase_1_discovery" :> PhaseProgress("File Discovery", 0))
                @@ ("phase_2_tables" :> PhaseProgress("Create Tables", 0))
                @@ ("phase_3_load" :> PhaseProgress("Load Data", 0))
                @@ ("phase_4_validate" :> PhaseProgress("Validate Data", 0)),
     discovered_files |-> EmptyDict, inferred_schemas |-> EmptyDict,
     created_tables |-> <<>>, loaded_tables |-> EmptyDict,
     infrastructure_ready |-> FALSE, schemas_created |-> <<>>,
     file_formats_created |-> <<>>, last_error |-> None, errors_count |-> 0,
     dbt_sources_registered |-> <<>>, dbt_models_created |-> <<>>]

\* An AgentMemory object: its four fields of session data
MemoryOf(id, st, msgs, log) ==
    [session_id |-> id, state |-> st, messages |-> msgs, tool_history |-> log]

\* AgentMemory.__init__, lines 128-132
NewMemory == MemoryOf(None, NoState, <<>>, <<>>)

\* The two directories: the state files and the history files, by session id
FilesOf(state_dir, history_dir) == [state |-> state_dir, history |-> history_dir]

\* What a call on the store leaves: the object, the directories, the exception
Outcome(m, fs, exc) == [memory |-> m, files |-> fs, raised |-> exc]

\* The property session_id: the id, made from the clock on first use
WithSessionId(m, t) ==
    IF Truthy(m.session_id) THEN m ELSE [m EXCEPT !.session_id = SessionIdAt(t)]

\* The property state: the state, created on first use
WithState(m, t) ==
    IF m.state # NoState THEN m
    ELSE LET m1 == WithSessionId(m, t)
         IN  [m1 EXCEPT !.state = CreateNewState(m1.session_id, IsoFormat(t))]

\* A successful result set one of whose columns is a TIMESTAMP: the connector
\* returns datetime objects (snowflake_tools.py:128-131)
TimestampRows ==
    [kind |-> "list", n |-> 1, repr |-> "[{'LOADED_AT': datetime.datetime(2024, 1, 1, 0, 0)}]"]

\* json.dump(..., default=str) and json.load of a payload: what JSON cannot
\* hold is written as its str()
JsonData(data) ==
    IF data = TimestampRows
    THEN [data EXCEPT !.repr = "[{'LOADED_AT': '2024-01-01 00:00:00'}]"]
    ELSE data

\* The content of a state file: asdict(self.state) and, under the key
\* tool_history, the log
StateData(m) ==
    [state |-> m.state,
     tool_history |-> [i \in 1..Len(m.tool_history) |->
                          [m.tool_history[i] EXCEPT !.result = JsonData(@)]]]

\* AgentMemory._save_state
SaveState(m, fs, t) ==
    LET m1 == WithState(WithSessionId(m, t), t)
    IN  Outcome(m1, [fs EXCEPT !.state = DictSet(@, m1.session_id, StateData(m1))], None)

\* AgentMemory._save_history
SaveHistory(m, fs, t) ==
    LET m1 == WithSessionId(m, t)
    IN  Outcome(m1, [fs EXCEPT !.history = DictSet(@, m1.session_id, m1.messages)], None)

\* ---------------------------------- core/memory.py, the store's operations
\* add_message and _save_history
AddMessageCall(m, fs, role, text, t) ==
    SaveHistory([m EXCEPT !.messages = AddMessage(@, role, text)], fs, t)

\* clear_messages: the list is emptied, no file is written
ClearMessages(m, fs) == Outcome([m EXCEPT !.messages = <<>>], fs, None)

\* log_tool_execution and _save_state
LogToolExecutionCall(m, fs, tool_name, input_params, result, error, t) ==
    SaveState([m EXCEPT !.tool_history =
                   LogToolExecution(@, tool_name, input_params, result, error)],
              fs, t)

\* started_at set on every entry into IN_PROGRESS
UpdatePhase_RestartsClock(st, phase_key, status, current_step, step_completed, error, now) ==
    LET phases == IF phase_key \in DOMAIN st.phases THEN st.phases
                  ELSE DictSet(st.phases, phase_key, PhaseProgress(phase_key, 0))
        p0 == phases[phase_key]
        p1 == IF status = None THEN p0
              ELSE [p0 EXCEPT !.status = status,
                              !.started_at = IF status = IN_PROGRESS THEN now ELSE @,
                              !.completed_at = IF status = COMPLETED THEN now ELSE @]
        p2 == IF current_step # <<>> THEN [p1 EXCEPT !.current_step = current_step[1]]
              ELSE p1
        p3 == IF Truthy(step_completed) /\ ~Contains(p2.steps_completed, step_completed)
              THEN [p2 EXCEPT !.steps_completed = Append(@, step_completed)] ELSE p2
        p4 == IF Truthy(error) THEN [p3 EXCEPT !.errors = Append(@, error)] ELSE p3
    IN  [st EXCEPT !.phases = DictSet(phases, phase_key, p4),
                   !.last_error = IF Truthy(error) THEN error ELSE @,
                   !.errors_count = IF Truthy(error) THEN @ + 1 ELSE @,
                   !.updated_at = now]

\* The completed step appended without looking for it in the list
UpdatePhase_AppendsAgain(st, phase_key, status, current_step, step_completed, error, now) ==
    LET phases == IF phase_key \in DOMAIN st.phases THEN st.phases
                  ELSE DictSet(st.phases, phase_key, PhaseProgress(phase_key, 0))
        p0 == phases[phase_key]
        p1 == IF status = None THEN p0
              ELSE [p0 EXCEPT !.status = status,
                              !.started_at = IF status = IN_PROGRESS /\ ~Truthy(@)
                                             THEN now ELSE @,
                              !.completed_at = IF status = COMPLETED THEN now ELSE @]
        p2 == IF current_step # <<>> THEN [p1 EXCEPT !.current_step = current_step[1]]
              ELSE p1
        p3 == IF Truthy(step_completed)
              THEN [p2 EXCEPT !.steps_completed = Append(@, step_completed)] ELSE p2
        p4 == IF Truthy(error) THEN [p3 EXCEPT !.errors = Append(@, error)] ELSE p3
    IN  [st EXCEPT !.phases = DictSet(phases, phase_key, p4),
                   !.last_error = IF Truthy(error) THEN error ELSE @,
                   !.errors_count = IF Truthy(error) THEN @ + 1 ELSE @,
                   !.updated_at = now]

\* The error is the last one; the count stays
RecordError_KeepsCount(st, error) == [st EXCEPT !.last_error = error]

\* update_phase, lines 289-290: the error is the last one and one more
RecordError(st, error) ==
    [st EXCEPT !.last_error = error, !.errors_count = @ + 1]

\* update_phase, lines 268-292, on the state.  current_step is <<>> for None
\* and <<n>> for the number n.
UpdatePhase(st, phase_key, status, current_step, step_completed, error, now) ==
    LET phases == IF phase_key \in DOMAIN st.phases THEN st.phases
                  ELSE DictSet(st.phases, phase_key, PhaseProgress(phase_key, 0))
        p0 == phases[phase_key]
        p1 == IF status = None THEN p0
              ELSE [p0 EXCEPT !.status = status,
                              !.started_at = IF status = IN_PROGRESS /\ ~Truthy(@)
                                             THEN now ELSE @,
                              !.completed_at = IF status = COMPLETED THEN now ELSE @]
        p2 == IF current_step # <<>> THEN [p1 EXCEPT !.current_step = current_step[1]]
              ELSE p1
        p3 == IF Truthy(step_completed) /\ ~Contains(p2.steps_completed, step_completed)
              THEN [p2 EXCEPT !.steps_completed = Append(@, step_completed)] ELSE p2
        p4 == IF Truthy(error) THEN [p3 EXCEPT !.errors = Append(@, error)] ELSE p3
        recorded == IF Truthy(error) THEN RecordError(st, error) ELSE st
    IN  [recorded EXCEPT !.phases = DictSet(phases, phase_key, p4),
                         !.updated_at = now]

\* update_phase and _save_state
UpdatePhaseCall(m, fs, phase_key, status, current_step, step_completed, error, t) ==
    LET m1 == WithState(m, t)
    IN  SaveState([m1 EXCEPT !.state = UpdatePhase(@, phase_key, status, current_step,
                                                   step_completed, error, IsoFormat(t))],
                  fs, t)

\* set_current_phase
SetCurrentPhase(m, fs, phase, t) ==
    LET m1 == WithState(m, t)
    IN  SaveState([m1 EXCEPT !.state.current_phase = phase], fs, t)

\* add_discovered_file
AddDiscoveredFile(m, fs, source, filename, t) ==
    LET m1 == WithState(m, t)
        files == m1.state.discovered_files
        known == IF source \in DOMAIN files THEN files[source] ELSE <<>>
        listed == IF Contains(known, filename) THEN known ELSE Append(known, filename)
    IN  SaveState([m1 EXCEPT !.state.discovered_files = DictSet(files, source, listed)],
                  fs, t)

\* add_inferred_schema
AddInferredSchema(m, fs, filename, schema, t) ==
    LET m1 == WithState(m, t)
    IN  SaveState([m1 EXCEPT !.state.inferred_schemas = DictSet(@, filename, schema)],
                  fs, t)

\* add_created_table
AddCreatedTable(m, fs, table_name, t) ==
    LET m1 == WithState(m, t)
    IN  SaveState([m1 EXCEPT !.state.created_tables =
                       IF Contains(@, table_name) THEN @ ELSE Append(@, table_name)],
                  fs, t)

AttributeErrorText == "'dict' object has no attribute 'append'"

\* add_loaded_table: loaded_tables is a dict, and .append raises
AddLoadedTable(m, fs, table_name, t) == Outcome(WithState(m, t), fs, AttributeErrorText)

\* set_infrastructure_ready
SetInfrastructureReady(m, fs, t) ==
    LET m1 == WithState(m, t)
    IN  SaveState([m1 EXCEPT !.state.infrastructure_ready = TRUE], fs, t)

\* The name appended without looking for it in the list
AddCreatedSchema_AppendsAgain(st, schema_name) ==
    [st EXCEPT !.schemas_created = Append(@, schema_name)]

\* add_created_schema, lines 330-331, on the state
AddCreatedSchema(st, schema_name) ==
    IF Contains(st.schemas_created, schema_name) THEN st
    ELSE [st EXCEPT !.schemas_created = Append(@, schema_name)]

\* add_created_schema and _save_state
AddCreatedSchemaCall(m, fs, schema_name, t) ==
    LET m1 == WithState(m, t)
    IN  SaveState([m1 EXCEPT !.state = AddCreatedSchema(@, schema_name)], fs, t)

\* add_created_file_format
AddCreatedFileFormat(m, fs, file_format, t) ==
    LET m1 == WithState(m, t)
    IN  SaveState([m1 EXCEPT !.state.file_formats_created =
                       IF Contains(@, file_format) THEN @ ELSE Append(@, file_format)],
                  fs, t)

\* What load_session returns, and the object it leaves
Loaded(ok, m) == [returned |-> ok, memory |-> m]

\* The session id taken over before the state file is looked for
LoadSession_SetsIdFirst(m, fs, id) ==
    IF id \notin DOMAIN fs.state THEN Loaded(FALSE, [m EXCEPT !.session_id = id])
    ELSE Loaded(TRUE, MemoryOf(id, fs.state[id].state,
                               IF id \in DOMAIN fs.history THEN fs.history[id]
                               ELSE m.messages,
                               fs.state[id].tool_history))

\* load_session: the files hold what _save_state and _save_history wrote
LoadSession(m, fs, id) ==
    IF id \notin DOMAIN fs.state THEN Loaded(FALSE, m)
    ELSE Loaded(TRUE, MemoryOf(id, fs.state[id].state,
                               IF id \in DOMAIN fs.history THEN fs.history[id]
                               ELSE m.messages,
                               fs.state[id].tool_history))

\* What load_session finds on disk: the files as they were written
\* ("intact"), a state file that is not JSON ("state_truncated"), a state file
\* with a key AgentState does not take ("state_unknown_key"), a history file
\* that is not JSON ("history_truncated")
FilesFound == {"intact", "state_truncated", "state_unknown_key", "history_truncated"}

\* load_session on files found damaged: every exception of the try block is
\* caught and False returned, with the assignments made before it kept.
\* _tool_history is assigned before AgentState(**state_data) is built, _state
\* and _session_id before the history file is read.
LoadSessionFound(m, fs, id, found) ==
    IF id \notin DOMAIN fs.state THEN Loaded(FALSE, m)
    ELSE IF found = "state_truncated" THEN Loaded(FALSE, m)
    ELSE IF found = "state_unknown_key"
    THEN Loaded(FALSE, [m EXCEPT !.tool_history = fs.state[id].tool_history])
    ELSE IF found = "history_truncated" /\ id \in DOMAIN fs.history
    THEN Loaded(FALSE, MemoryOf(id, fs.state[id].state, m.messages,
                                fs.state[id].tool_history))
    ELSE LoadSession(m, fs, id)

\* --------------------------------------------------------- core/agent.py
AgentResponse(text, calls, needs_input, error, iteration) ==
    [kind |-> "response", content |-> text, tool_calls |-> calls,
     needs_user_input |-> needs_input, error |-> error, iteration |-> iteration]

\* No invocation has returned yet.
NoResponse ==
    [kind |-> "none", content |-> "", tool_calls |-> <<>>,
     needs_user_input |-> FALSE, error |-> None, iteration |-> 0]

\* An exception left process_message.
Raised(exc) ==
    [kind |-> "raised", content |-> "", tool_calls |-> <<>>,
     needs_user_input |-> FALSE, error |-> exc, iteration |-> 0]

MaxIterationsText == "Maximum iterations reached. Please provide more guidance."

\* The names _execute_tool has a branch for (agent.py:691-771)
HandledToolNames ==
    {"execute_snowflake_query", "validate_snowflake_connection", "search_snowflake_docs",
     "list_github_directory", "read_github_file", "push_github_file",
     "trigger_github_workflow", "list_github_workflow_runs", "get_github_workflow_run",
     "get_github_workflow_run_jobs", "request_user_input", "update_progress"}

\* Tool names the model can request.  delete_github_file is in the catalogue
\* (agent.py:429) and has no branch in _execute_tool.
ToolNames == {"execute_snowflake_query", "request_user_input", "delete_github_file"}

QueryArgs == [query |-> "SELECT 1"]
QuestionArgs == [question |-> "Proceed?", context |-> ""]
NoArgs == [k \in {} |-> ""]

ArgumentsOf(name) ==
    IF name = "execute_snowflake_query" THEN QueryArgs
    ELSE IF name = "request_user_input" THEN QuestionArgs
    ELSE NoArgs

\* json.dumps(tc["arguments"])
JsonDumps(arguments) ==
    IF DOMAIN arguments = {} THEN "{}"
    ELSE IF DOMAIN arguments = {"query"}
         THEN "{\"query\": \"" \o arguments.query \o "\"}"
         ELSE "{\"question\": \"" \o arguments.question
              \o "\", \"context\": \"" \o arguments.context \o "\"}"

\* What the world outside the loop does when a tool call is dispatched: the
\* warehouse returns few rows or many rows, or the call raises (the tool object
\* is None when the capability is disabled); the user-input callback answers.
Environments(tool_name, callback) ==
    IF tool_name = "execute_snowflake_query"
    THEN {"rows", "many_rows", "raise"}
    ELSE IF tool_name = "request_user_input" /\ callback
         THEN {"answer"}
         ELSE {"none"}

ExceptionText == "tool exception"

\* Stands for "no result": the branch raised before building one.
NoToolResult == ToolResult("", ERROR, NoData, None)

\* The else branch raising instead of returning a result
UnknownTool_Raises(tool_name) ==
    [raised |-> TRUE, exc |-> "'" \o tool_name \o "'", result |-> NoToolResult]

\* The else branch of _execute_tool (agent.py:790-795)
UnknownTool(tool_name) ==
    [raised |-> FALSE, exc |-> None,
     result |-> ToolResult(tool_name, ERROR, NoData, "Unknown tool: " \o tool_name)]

\* arguments.get(key, default)
ArgGet(arguments, key, default) ==
    IF key \in DOMAIN arguments THEN arguments[key] ELSE default

\* The arguments of an update_progress call; status is <<>> when the call
\* names none (the descriptor requires phase and step only, agent.py:587)
ProgressArgs(phase, step, status) ==
    IF status = <<>> THEN [phase |-> phase, step |-> step]
    ELSE [phase |-> phase, step |-> step, status |-> status[1]]

\* Every status string taken for in_progress
StatusEnum_AlwaysInProgress(status) == IN_PROGRESS

\* agent.py:776-780, the status string to the PhaseStatus
StatusEnum(status) ==
    IF status = "in_progress" THEN IN_PROGRESS
    ELSE IF status = "completed" THEN COMPLETED
    ELSE IF status = "failed" THEN FAILED
    ELSE IN_PROGRESS

\* str() of the payload of agent.py:787
ProgressRepr(arguments) ==
    "{'phase': '" \o ArgGet(arguments, "phase", "")
    \o "', 'step': '" \o ArgGet(arguments, "step", "")
    \o "', 'status': '" \o ArgGet(arguments, "status", "in_progress") \o "'}"

\* What the try block of _execute_tool does to the store: update_progress
\* calls update_phase (agent.py:772-782), the other branches modelled leave
\* the store alone (the query of QueryArgs creates nothing).
DispatchEffect(m, fs, tool_name, arguments, t) ==
    IF tool_name = "update_progress"
    THEN UpdatePhaseCall(m, fs, ArgGet(arguments, "phase", ""),
                         StatusEnum(ArgGet(arguments, "status", "in_progress")),
                         <<>>, ArgGet(arguments, "step", ""), None, t)
    ELSE Outcome(m, fs, None)

\* The operation each github branch of _execute_tool passes to
\* GithubTool.execute (agent.py:713-748)
GithubOperations ==
    [list_github_directory |-> "list_directory",
     read_github_file |-> "read_file",
     push_github_file |-> "create_or_update_file",
     trigger_github_workflow |-> "trigger_workflow",
     list_github_workflow_runs |-> "list_workflow_runs",
     get_github_workflow_run |-> "get_workflow_run",
     get_github_workflow_run_jobs |-> "get_workflow_run_jobs"]

\* GithubTool.AVAILABLE_OPERATIONS
AVAILABLE_OPERATIONS ==
    {"read_file", "create_or_update_file", "delete_file", "list_directory",
     "create_or_update_workflow", "trigger_workflow", "list_workflow_runs",
     "get_workflow_run", "get_workflow_run_jobs"}

\* The operations GithubTool has a method _op_<operation> for; the method
\* listing the workflow runs is named _list_workflow_runs.
GithubHandlers ==
    {"read_file", "create_or_update_file", "delete_file", "list_directory",
     "create_or_update_workflow", "get_workflow_run", "trigger_workflow",
     "get_workflow_run_jobs"}

\* str(e) of the AttributeError getattr raises for a missing method
NoHandlerText(operation) ==
    "'GithubTool' object has no attribute '_op_" \o operation \o "'"

\* GithubTool.execute: an unknown operation, a missing handler and a failing
\* request all end as ERROR results; env is what the API does.
GithubExecute(operation, env) ==
    IF operation \notin AVAILABLE_OPERATIONS
    THEN ToolResult("github", ERROR, NoData, "Unknown operation '" \o operation \o "'")
    ELSE IF operation \notin GithubHandlers
    THEN ToolResult("github", ERROR, NoData, NoHandlerText(operation))
    ELSE IF env = "rows"
    THEN ToolResult("github", SUCCESS, DictData("{'path': 'models'}"), None)
    ELSE ToolResult("github", ERROR, NoData, "404 Not Found")

\* SnowflakeTool.validate: the context as a dict, or an ERROR result built
\* without an error text (snowflake_tools.py:93-101)
SnowflakeValidate(env) ==
    IF env = "rows"
    THEN ToolResult("snowflake", SUCCESS, DictData("{'ROLE': 'LOADER'}"), None)
    ELSE ToolResult("snowflake", ERROR, NoData, None)

\* PineconeTool.execute: the matches, or an ERROR result with the exception's text
PineconeExecute(env) ==
    IF env = "rows"
    THEN ToolResult("pinecone", SUCCESS, ListData(FewRows), None)
    ELSE ToolResult("pinecone", ERROR, NoData, "index not found")

\* The attribute of the agent a branch of _execute_tool calls: the tool
\* object of a category, or None for the branches that call no tool
CollaboratorOf(tool_name) ==
    IF tool_name \in {"execute_snowflake_query", "validate_snowflake_connection"}
    THEN "snowflake"
    ELSE IF tool_name = "search_snowflake_docs" THEN "pinecone"
    ELSE IF tool_name \in DOMAIN GithubOperations THEN "github"
    ELSE None

\* The branches of _execute_tool that call the github and pinecone tools and
\* validate: env "raise" is the call raising, as it does on the None that
\* stands for a tool not instantiated.
DispatchToCollaborator(tool_name, env) ==
    IF env = "raise"
    THEN [raised |-> TRUE, exc |-> ExceptionText, result |-> NoToolResult]
    ELSE [raised |-> FALSE, exc |-> None,
          result |-> IF tool_name = "validate_snowflake_connection"
                     THEN SnowflakeValidate(env)
                     ELSE IF tool_name = "search_snowflake_docs"
                     THEN PineconeExecute(env)
                     ELSE GithubExecute(GithubOperations[tool_name], env)]

\* The try block of _execute_tool: the result of the matching branch, or the
\* exception raised in it.
Dispatch(tool_name, arguments, env, callback) ==
    IF tool_name = "execute_snowflake_query"
    THEN IF env = "raise"
         THEN [raised |-> TRUE, exc |-> ExceptionText, result |-> NoToolResult]
         ELSE [raised |-> FALSE, exc |-> None,
               result |-> IF env = "rows"
                          THEN ToolResult("snowflake", SUCCESS, ListData(FewRows), None)
                          ELSE IF env = "many_rows"
                               THEN ToolResult("snowflake", SUCCESS, ListData(ManyRows), None)
                               ELSE ToolResult("snowflake", ERROR, NoData, "SQL error")]
    ELSE IF tool_name = "request_user_input"
         THEN IF callback
              THEN IF env = "raise"
                   THEN [raised |-> TRUE, exc |-> ExceptionText, result |-> NoToolResult]
                   ELSE [raised |-> FALSE, exc |-> None,
                         result |-> ToolResult(tool_name, SUCCESS,
                                        DictData("{'user_response': 'yes'}"), None)]
              ELSE [raised |-> FALSE, exc |-> None,
                    result |-> ToolResult(tool_name, PENDING_APPROVAL,
                                   DictData("{'question': '" \o arguments.question
                                            \o "', 'context': '" \o arguments.context
                                            \o "'}"), None)]
         ELSE IF tool_name = "update_progress"
              THEN [raised |-> FALSE, exc |-> None,
                    result |-> ToolResult(tool_name, SUCCESS,
                                          DictData(ProgressRepr(arguments)), None)]
              ELSE IF tool_name \in HandledToolNames
                   THEN DispatchToCollaborator(tool_name, env)
                   ELSE UnknownTool(tool_name)

\* The callback raising taken for an answer
CatchToolException_AnswersAnyway(tool_name, d) ==
    IF d.raised
    THEN [raised |-> FALSE, exc |-> None,
          result |-> ToolResult(tool_name, SUCCESS, NoData, None)]
    ELSE d

\* No except clause: the exception leaves _execute_tool.
CatchToolException_Propagates(tool_name, d) == d

\* The except clause of _execute_tool (agent.py:797-803)
CatchToolException(tool_name, d) ==
    IF d.raised
    THEN [raised |-> FALSE, exc |-> None,
          result |-> ToolResult(tool_name, ERROR, NoData, d.exc)]
    ELSE d

\* DACLI._execute_tool up to the log call: what the caller gets
ExecuteTool(tool_name, arguments, env, callback) ==
    CatchToolException(tool_name, Dispatch(tool_name, arguments, env, callback))

\* DACLI._execute_tool on the store m and the directories fs, lines 678-818:
\* the result, and the store after the branch and the log call
ExecuteToolOnStore(m, fs, tool_name, arguments, env, callback, t) ==
    LET result == ExecuteTool(tool_name, arguments, env, callback).result
        effect == DispatchEffect(m, fs, tool_name, arguments, t)
        logged == LogToolExecutionCall(effect.memory, effect.files, tool_name, arguments,
                                       IF success(result) THEN result.data ELSE NoData,
                                       result.error, t)
    IN  [result |-> result, memory |-> logged.memory, files |-> logged.files]

\* No call of _execute_tool on its own yet
NotExecuted ==
    [done |-> FALSE, tool_name |-> "", arguments |-> NoArgs, env |-> "none",
     result |-> NoToolResult]

\* _execute_tool was called with tool_name and arguments and returned result
Executed(tool_name, arguments, env, result) ==
    [done |-> TRUE, tool_name |-> tool_name, arguments |-> arguments, env |-> env,
     result |-> result]

\* The break of agent.py:885-887 left out: no result stops the batch.
StopsBatch_Never(result) == FALSE

\* agent.py:885, the test that stops the batch
StopsBatch(result) == result.status = PENDING_APPROVAL

\* The loop condition written with <= : one iteration too many.
LoopContinues_OffByOne(iteration, bound) == iteration <= bound

\* agent.py:831, the loop condition
LoopContinues(iteration, bound) == iteration < bound

ToolCall(id, name) == [id |-> id, name |-> name, arguments |-> ArgumentsOf(name)]

\* The assistant turn of agent.py:859-873
AssistantToolCallMessage(text, calls) ==
    [role |-> "assistant",
     content |-> IF text = "" THEN None ELSE text,
     tool_calls |-> [i \in 1..Len(calls) |->
                        [id |-> calls[i].id, type |-> "function",
                         function |-> [name |-> calls[i].name,
                                       arguments |-> JsonDumps(calls[i].arguments)]]]]

\* The tool turn of agent.py:890-896
ToolMessage(tool_call_id, text) ==
    [role |-> "tool", tool_call_id |-> tool_call_id, content |-> text]

\* The turn put at the front of the working context: insert(0, m)
AppendToContext_AtFront(context, m) == <<m>> \o context

\* agent.py:874 and 890, messages.append
AppendToContext(context, m) == Append(context, m)

\* The terminal response built without its iteration (the default, 0)
FinalResponse_NoIteration(text, iteration) == AgentResponse(text, <<>>, FALSE, None, 0)

\* agent.py:848-852
FinalResponse(text, iteration) == AgentResponse(text, <<>>, FALSE, None, iteration)
PendingResponse(text, calls, iteration) == AgentResponse(text, calls, TRUE, None, iteration)
ErrorResponse(exc, iteration) == AgentResponse("", <<>>, FALSE, exc, iteration)
MaxIterationsResponse(iteration) ==
    AgentResponse(MaxIterationsText, <<>>, TRUE, None, iteration)

\* No except clause: the exception leaves process_message.
CatchLoopException_Propagates(exc, iteration) == Raised(exc)

\* The except clause of process_message (agent.py:907-913)
CatchLoopException(exc, iteration) == ErrorResponse(exc, iteration)

\* ------------------------------------------------ config/tool_registry.py
\* ToolCategory
ToolCategories == {"snowflake", "github", "pinecone"}

\* TOOL_CATALOG: the operations of a category
OperationsOf(category) ==
    IF category = "snowflake"
    THEN {"execute_snowflake_query", "validate_snowflake_connection"}
    ELSE IF category = "pinecone"
    THEN {"search_snowflake_docs"}
    ELSE {"list_github_directory", "read_github_file", "push_github_file",
          "delete_github_file", "trigger_github_workflow", "list_github_workflow_runs",
          "get_github_workflow_run", "get_github_workflow_run_jobs"}

\* ToolConfig: enabled, and the dict operations from names to booleans
ToolConfig(enabled, operations) == [enabled |-> enabled, operations |-> operations]

\* ToolConfig.get_enabled_operations
GetEnabledOperations(tool_config) ==
    IF ~tool_config.enabled THEN {}
    ELSE {op \in DOMAIN tool_config.operations : tool_config.operations[op]}

\* ToolsSettings.get_all_enabled_operations
GetAllEnabledOperations(tools_settings) ==
    GetEnabledOperations(tools_settings.snowflake)
    \cup GetEnabledOperations(tools_settings.github)
    \cup GetEnabledOperations(tools_settings.pinecone)

\* ToolRegistry.is_tool_enabled
IsToolEnabled(tools_settings, category) == tools_settings[category].enabled

\* ToolRegistry.is_operation_enabled
IsOperationEnabled(tools_settings, operation_name) ==
    operation_name \in GetAllEnabledOperations(tools_settings)

\* ------------------------------------ core/agent.py, the tool catalogue
\* The descriptors _build_tool_definitions can append, in the order of its
\* if statements, each with the category whose test guards it
GuardedDescriptors ==
    << <<"snowflake", "execute_snowflake_query">>,
       <<"snowflake", "validate_snowflake_connection">>,
       <<"pinecone", "search_snowflake_docs">>,
       <<"github", "list_github_directory">>,
       <<"github", "read_github_file">>,
       <<"github", "push_github_file">>,
       <<"github", "delete_github_file">>,
       <<"github", "trigger_github_workflow">>,
       <<"github", "list_github_workflow_runs">>,
       <<"github", "get_github_workflow_run">>,
       <<"github", "get_github_workflow_run_jobs">> >>

\* The descriptors appended whatever the configuration (agent.py:537-591)
CoreDescriptors == <<"request_user_input", "update_progress">>

\* DACLI._build_tool_definitions: the names of the descriptors, in order
BuildToolDefinitions(tools_settings) ==
    LET Kept(d) == /\ IsToolEnabled(tools_settings, d[1])
                   /\ IsOperationEnabled(tools_settings, d[2])
        kept == SelectSeq(GuardedDescriptors, Kept)
    IN  [i \in 1..Len(kept) |-> kept[i][2]] \o CoreDescriptors

\* ToolsSettings(): every category disabled, no operation listed
DefaultToolsSettings ==
    [snowflake |-> ToolConfig(FALSE, EmptyDict), github |-> ToolConfig(FALSE, EmptyDict),
     pinecone |-> ToolConfig(FALSE, EmptyDict)]

\* No DACLI object yet
NotBuilt ==
    [built |-> FALSE, tools_settings |-> DefaultToolsSettings, tools |-> <<>>,
     handed |-> <<>>]

\* ------------------------------------------------------------ core/agent.py, LLMClient
\* The providers LLMClient.initialize has a branch for (agent.py:41-69)
Providers == {"openai", "anthropic", "google", "openrouter"}

\* str.lower() on the provider names of the configurations considered
Lower(provider) ==
    IF provider = "OpenAI" THEN "openai"
    ELSE IF provider = "Anthropic" THEN "anthropic"
    ELSE provider

\* No LLMClient yet.  initialized: the host has called DACLI.initialize.
NotConstructed ==
    [built |-> FALSE, provider |-> None, client |-> None, attempts |-> <<>>,
     generate_calls |-> 0, last |-> "None", attempted |-> None,
     raised |-> None, returned |-> "None", status |-> None,
     initialized |-> FALSE]

\* LLMClient.__init__: no client yet.  attempts lists how each call of
\* initialize on this instance ended.
LLMClientInit(provider) ==
    [NotConstructed EXCEPT !.built = TRUE, !.provider = provider,
                           !.last = "__init__"]

\* LLMClient.initialize: the import and the constructor of the provider's
\* library either give a client or raise (env); an unknown provider raises
\* ValueError.  _client is assigned only when a client was constructed.
Initialize(llm, env) ==
    LET provider == Lower(llm.provider)
    IN  IF provider \in Providers
        THEN IF env = "constructed"
             THEN [llm EXCEPT !.client = provider,
                              !.attempts = Append(@, "constructed"),
                              !.attempted = "constructed", !.raised = None]
             ELSE [llm EXCEPT !.attempts = Append(@, "raised"),
                              !.attempted = "raised", !.raised = env]
        ELSE [llm EXCEPT !.attempts = Append(@, "raised"),
                         !.attempted = "raised",
                         !.raised = "Unsupported LLM provider: " \o provider]

\* LLMClient.generate: initialize when there is no client, then the call of
\* the provider (answer: its text, or the exception it raises).
Generate(llm, env, answer) ==
    LET called == [llm EXCEPT !.generate_calls = @ + 1, !.last = "generate",
                              !.attempted = None, !.raised = None,
                              !.returned = "None", !.status = None]
        ready == IF called.client = None THEN Initialize(called, env) ELSE called
    IN  IF ready.raised # None THEN ready
        ELSE IF Lower(ready.provider) \in Providers
        THEN IF answer.raises
             THEN [ready EXCEPT !.raised = answer.text]
             ELSE [ready EXCEPT !.returned = answer.text]
        ELSE [ready EXCEPT !.raised = "Unsupported provider: " \o Lower(ready.provider)]

\* DACLI.initialize, the adapter's part: the exception of llm.initialize is
\* caught and reported by a status update; the call returns True.
DacliInitialize(llm, env) ==
    LET called == [llm EXCEPT !.last = "initialize", !.initialized = TRUE,
                              !.attempted = None,
                              !.raised = None, !.returned = "None",
                              !.status = None]
        ready == Initialize(called, env)
    IN  IF ready.raised # None
        THEN [ready EXCEPT !.status = "Failed to initialize LLM: " \o ready.raised,
                           !.raised = None, !.returned = "True"]
        ELSE [ready EXCEPT !.returned = "True"]

\* ------------------------------------------------------------ core/agent.py, run_interactive
\* The tools of the agent, in the order initialize connects them; shutdown
\* disconnects snowflake, github, pinecone in this order.
ConnectOrder == <<"snowflake", "pinecone", "github">>
ShutdownOrder == <<"snowflake", "github", "pinecone">>
HookedTools == {"snowflake", "pinecone", "github"}

NoHooks == [tool \in HookedTools |-> 0]

\* run_interactive has not been called
NotRunning ==
    [at |-> "new", enabled |-> {}, connected |-> {}, connects |-> NoHooks,
     disconnects |-> NoHooks, inputs |-> 0, processed |-> 0, raised |-> None]

\* tool.connect(): _is_connected is set when the library connects; the
\* tools in failing raise ConnectionError.
Connect(run, tool, failing) ==
    IF tool \in failing
    THEN [run EXCEPT !.connects[tool] = @ + 1, !.connected = @ \ {tool}]
    ELSE [run EXCEPT !.connects[tool] = @ + 1, !.connected = @ \union {tool}]

\* DACLI.initialize, the tools' part: connect of every enabled tool, each
\* failure caught and reported.
RECURSIVE ConnectAll(_, _, _)
ConnectAll(run, i, failing) ==
    IF i > Len(ConnectOrder) THEN run
    ELSE LET tool == ConnectOrder[i]
         IN  IF tool \in run.enabled
             THEN ConnectAll(Connect(run, tool, failing), i + 1, failing)
             ELSE ConnectAll(run, i + 1, failing)

\* tool.disconnect(): SnowflakeTool and PineconeTool clear _is_connected;
\* GitHubTool has no disconnect of its own and inherits BaseTool's, which
\* assigns to the property is_connected, a property without setter.
Disconnect(run, tool) ==
    IF tool = "github"
    THEN [run EXCEPT !.disconnects[tool] = @ + 1, !.raised = "AttributeError"]
    ELSE [run EXCEPT !.disconnects[tool] = @ + 1, !.connected = @ \ {tool}]

\* DACLI.shutdown: disconnect of every enabled tool, up to the first that raises
RECURSIVE Shutdown(_, _)
Shutdown(run, i) ==
    IF i > Len(ShutdownOrder) \/ run.raised # None THEN run
    ELSE LET tool == ShutdownOrder[i]
         IN  IF tool \in run.enabled
             THEN Shutdown(Disconnect(run, tool), i + 1)
             ELSE Shutdown(run, i + 1)

\* A tool's execute connects when _is_connected is unset.
RECURSIVE UseTools(_, _, _, _)
UseTools(run, i, used, failing) ==
    IF i > Len(ConnectOrder) THEN run
    ELSE LET tool == ConnectOrder[i]
         IN  IF tool \in used /\ tool \notin run.connected
             THEN UseTools(Connect(run, tool, failing), i + 1, used, failing)
             ELSE UseTools(run, i + 1, used, failing)

\* run_interactive up to the prompt: initialize, which returns True whatever
\* failed.
RunInteractive(enabled, failing) ==
    [ConnectAll([NotRunning EXCEPT !.enabled = enabled], 1, failing)
        EXCEPT !.at = "prompt"]

\* One pass of the loop of run_interactive: input(), the command or the
\* message, and the finally clause, which calls shutdown on every pass.
\* user_input "EOF" is input() raising EOFError, "^C" KeyboardInterrupt.
ReadInput(run, user_input, used, failing) ==
    LET read == [run EXCEPT !.inputs = @ + 1]
        body == IF user_input \in {"exit", "status", "^C"} THEN read
                ELSE IF user_input = "EOF" THEN [read EXCEPT !.raised = "EOFError"]
                ELSE [UseTools(read, 1, used, failing) EXCEPT !.processed = @ + 1]
        closed == Shutdown([body EXCEPT !.raised = None], 1)
        raised == IF closed.raised # None THEN closed.raised ELSE body.raised
    IN  [closed EXCEPT !.raised = raised,
                       !.at = IF raised # None \/ user_input = "exit"
                              THEN "ended" ELSE "prompt"]

\* ------------------------------------------------------------ deploy/app/server.py
\* The server after start-up: _agent_cache is empty (a function from the
\* session ids cached to the agents, numbered in the order of creation);
\* requests lists the invoke requests received, each with what
\* process_message gave back and what the client was sent.
ServerStarted == [cache |-> <<>>, agents |-> 0, requests |-> <<>>]

\* invoke_agent: the session id is request.session_id or "default"
SessionOf(requested) ==
    IF requested = None \/ requested = "" THEN "default" ELSE requested

\* No answer has been sent to the request yet.
NoAnswer == [code |-> 0, status |-> "", content |-> "", error |-> None, detail |-> ""]

\* Always a new agent, whatever is cached
GetOrCreateAgent_AlwaysCreates(srv, sid) ==
    LET agent == srv.agents + 1
    IN  [srv EXCEPT !.agents = agent,
                    !.cache = [k \in DOMAIN srv.cache \union {sid} |->
                                  IF k = sid THEN agent ELSE srv.cache[k]]]

\* _get_or_create_agent: the cached agent, or a new store and a new agent,
\* cached under the session id.  Nothing awaited by agent.initialize suspends
\* (LLMClient.initialize and the three connect methods hold no await), so the
\* lookup and the insertion are one step of the event loop.
GetOrCreateAgent(srv, sid) ==
    IF sid \in DOMAIN srv.cache THEN srv
    ELSE LET agent == srv.agents + 1
         IN  [srv EXCEPT !.agents = agent,
                         !.cache = [k \in DOMAIN srv.cache \union {sid} |->
                                       IF k = sid THEN agent ELSE srv.cache[k]]]

\* invoke_agent up to its first suspension: with the agent at hand it calls
\* process_message, which runs up to the adapter call and waits there.
InvokeAgent(srv, requested) ==
    LET sid == SessionOf(requested)
        got == GetOrCreateAgent(srv, sid)
    IN  [got EXCEPT !.requests = Append(@, [at |-> "process_message",
                                            session_id |-> sid,
                                            agent |-> got.cache[sid],
                                            response |-> NoResponse,
                                            answer |-> NoAnswer])]

\* The InvokeResponse of invoke_agent: status is the literal "success" and
\* error is left at its default, whatever the response carries.
InvokeResponse(returned) ==
    [code |-> 200, status |-> "success", content |-> returned.content,
     error |-> None, detail |-> ""]

\* The except clause of invoke_agent: HTTPException(500, detail=str(e))
HTTPException(exc) ==
    [code |-> 500, status |-> "", content |-> "", error |-> None, detail |-> exc]

\* process_message returns and invoke_agent answers the request
InvokeReturns(srv, r, returned) ==
    [srv EXCEPT !.requests[r].at = "done",
                !.requests[r].response = returned,
                !.requests[r].answer = IF returned.kind = "raised"
                                       THEN HTTPException(returned.error)
                                       ELSE InvokeResponse(returned)]

\* reset_session: the cached agent is dropped (and shut down)
ResetSession(srv, requested) ==
    IF requested \in DOMAIN srv.cache
    THEN [srv EXCEPT !.cache = [k \in DOMAIN srv.cache \ {requested} |-> srv.cache[k]]]
    ELSE srv

\* ------------------------------------------------------------ the stores of one host
\* A host process before its first session: no store, empty directories.
\* driven is the session the last call was made on.
NoSessions ==
    [stores |-> <<>>, files |-> FilesOf(EmptyDict, EmptyDict), driven |-> 0,
     calls |-> 0]

\* A session is created: AgentMemory over the host's two directories
NewSession(host) == [host EXCEPT !.stores = Append(@, NewMemory), !.driven = 0]

\* A call on the store of session k left the outcome out
Driven(host, k, out) ==
    [host EXCEPT !.stores[k] = out.memory, !.files = out.files, !.driven = k,
                 !.calls = @ + 1]

\* ------------------------------------------------------------ inputs
UserMessages == {"load the sales data"}
FinalTexts == {"done"}
TurnTexts == {"", "let me check"}
AdapterErrors == {"adapter error"}

\* The id the provider gives the k-th tool call of the turn answered in
\* iteration i
CallId(i, k) == "call_" \o ToString(i) \o "_" \o ToString(k)

RECURSIVE SeqsUpTo(_, _)
SeqsUpTo(S, n) ==
    IF n = 0 THEN {<<>>}
    ELSE LET shorter == SeqsUpTo(S, n - 1)
         IN  shorter \cup {Append(q, x) : q \in shorter, x \in S}

\* The non-empty batches of tool names of at most MaxBatch calls
Batches == SeqsUpTo(ToolNames, MaxBatch) \ {<<>>}

\* ------------------------------------------------------------ state machine
\* How a call of llm.generate ended: "none" (not called yet), "raise", "final"
\* (no tool call) or "tools".
Turn(kind, exc) == [kind |-> kind, exc |-> exc]

\* A call on the store: the method, its arguments, the exception it raised and
\* the repr of what it returned
Call(op, args, raised, returned) ==
    [op |-> op, args |-> args, raised |-> raised, returned |-> returned]

\* The store as it stands, and the two directories
Memory == MemoryOf(session_id, state, memory_messages, tool_history)
Files == FilesOf(state_files, history_files)

store == <<session_id, state, memory_messages, tool_history, state_files, history_files>>

\* The store and the directories are left as the call out left them; the
\* outcome is computed once.
Becomes(out) ==
    \E left \in {out} :
        /\ session_id' = left.memory.session_id
        /\ state' = left.memory.state
        /\ memory_messages' = left.memory.messages
        /\ tool_history' = left.memory.tool_history
        /\ state_files' = left.files.state
        /\ history_files' = left.files.history

Init ==
    /\ max_iterations \in MinMaxIterations..MaxIterations
    /\ memory_window \in MinMemoryWindow..MaxWindow
    /\ on_user_input_needed \in BOOLEAN
    /\ memory_messages = <<>>
    /\ tool_history = <<>>
    /\ pc = "idle"
    /\ messages = <<>>
    /\ current_iteration = 0
    /\ content = ""
    /\ tool_calls = <<>>
    /\ tool_index = 0
    /\ tool_results = <<>>
    /\ response = NoResponse
    /\ adapter_calls = 0
    /\ dispatched = <<>>
    /\ history_before = <<>>
    /\ last_turn = Turn("none", None)
    /\ invocations = 0
    /\ session_id = None
    /\ state = NoState
    /\ state_files = EmptyDict
    /\ history_files = EmptyDict
    /\ clock = 0
    /\ last_call = Call("__init__", <<>>, None, "None")
    /\ adapter = NotConstructed
    /\ interactive = NotRunning
    /\ server = ServerStarted
    /\ sessions = NoSessions
    /\ rendering = NotRendered
    /\ executed = NotExecuted
    /\ catalogue = NotBuilt

config == <<max_iterations, memory_window, on_user_input_needed>>

\* What neither process_message nor the store touches
elsewhere == <<sessions, server, interactive, adapter, rendering, executed, catalogue>>

\* The counter of the earlier invocation carried over
ResetIteration_CarriesOver(iteration) == iteration

\* agent.py:829, self._current_iteration = 0
ResetIteration(iteration) == 0

\* process_message, lines 823-829: persist the user message, build the
\* working context, reset the iteration counter.
ProcessMessage(user_message) ==
    /\ pc = "idle"
    /\ invocations < MaxInvocations
    /\ invocations' = invocations + 1
    /\ history_before' = memory_messages
    /\ Becomes(AddMessageCall(Memory, Files, "user", user_message, clock))
    /\ last_call' = Call("add_message", <<"user", user_message>>, None, "None")
    /\ messages' = GetContextMessages(memory_messages', memory_window)
    /\ current_iteration' = ResetIteration(current_iteration)
    /\ adapter_calls' = 0
    /\ content' = ""
    /\ tool_calls' = <<>>
    /\ tool_index' = 0
    /\ tool_results' = <<>>
    /\ dispatched' = <<>>
    /\ response' = NoResponse
    /\ last_turn' = Turn("none", None)
    /\ pc' = "loop"
    /\ UNCHANGED <<config, elsewhere, clock>>

\* The while condition fails: lines 915-921.
MaxIterationsReached ==
    /\ pc = "loop"
    /\ ~LoopContinues(current_iteration, max_iterations)
    /\ response' = MaxIterationsResponse(current_iteration)
    /\ pc' = "idle"
    /\ UNCHANGED <<config, elsewhere, store, clock, last_call, messages, current_iteration,
                   content, tool_calls, tool_index, tool_results, adapter_calls,
                   dispatched, history_before, last_turn, invocations>>

\* llm.generate raises: lines 832-843 and 907-913.
GenerateRaises(exc) ==
    /\ pc = "loop"
    /\ LoopContinues(current_iteration, max_iterations)
    /\ current_iteration' = current_iteration + 1
    /\ adapter_calls' = adapter_calls + 1
    /\ response' = CatchLoopException(exc, current_iteration')
    /\ last_turn' = Turn("raise", exc)
    /\ pc' = "idle"
    /\ UNCHANGED <<config, elsewhere, store, clock, last_call, messages, content, tool_calls,
                   tool_index, tool_results, dispatched, history_before, invocations>>

\* llm.generate returns no tool call: lines 832-852.
GenerateFinalAnswer(text) ==
    /\ pc = "loop"
    /\ LoopContinues(current_iteration, max_iterations)
    /\ current_iteration' = current_iteration + 1
    /\ adapter_calls' = adapter_calls + 1
    /\ content' = text
    /\ tool_calls' = <<>>
    /\ Becomes(AddMessageCall(Memory, Files, "assistant", text, clock))
    /\ last_call' = Call("add_message", <<"assistant", text>>, None, "None")
    /\ response' = FinalResponse(text, current_iteration')
    /\ last_turn' = Turn("final", None)
    /\ pc' = "idle"
    /\ UNCHANGED <<config, elsewhere, clock, messages, tool_index, tool_results, dispatched,
                   history_before, invocations>>

\* llm.generate returns tool calls: lines 832-874.
GenerateToolCalls(text, names) ==
    /\ pc = "loop"
    /\ LoopContinues(current_iteration, max_iterations)
    /\ Len(tool_history) + Len(names) <= MaxToolLog
    /\ current_iteration' = current_iteration + 1
    /\ adapter_calls' = adapter_calls + 1
    /\ content' = text
    /\ tool_calls' = [k \in 1..Len(names) |-> ToolCall(CallId(current_iteration', k), names[k])]
    /\ tool_results' = <<>>
    /\ dispatched' = <<>>
    /\ messages' = AppendToContext(messages, AssistantToolCallMessage(text, tool_calls'))
    /\ tool_index' = 1
    /\ last_turn' = Turn("tools", None)
    /\ pc' = "tools"
    /\ UNCHANGED <<config, elsewhere, store, clock, last_call, response, history_before,
                   invocations>>

\* One pass of the for loop, lines 876-905, with the call of _execute_tool
\* (lines 678-818) and, after the last call, the return to the while loop.
ExecuteToolCall(env) ==
    /\ pc = "tools"
    /\ \E tool_call \in {tool_calls[tool_index]} :
       \E out \in {ExecuteTool(tool_call.name, tool_call.arguments, env, on_user_input_needed)} :
       \E result \in {out.result} :
       \E rendered \in {ToMessage(result)} :
           /\ env \in Environments(tool_call.name, on_user_input_needed)
           /\ dispatched' = Append(dispatched, [id |-> tool_call.id, env |-> env])
           /\ IF out.raised
              THEN \* an exception CatchToolException lets through would skip the
                   \* log call and reach the except clause of process_message
                   /\ response' = CatchLoopException(out.exc, current_iteration)
                   /\ pc' = "idle"
                   /\ UNCHANGED <<store, last_call, tool_results, messages, tool_index>>
              ELSE /\ Becomes(LogToolExecutionCall(
                                  Memory, Files, tool_call.name, tool_call.arguments,
                                  IF success(result) THEN result.data ELSE NoData,
                                  result.error, clock))
                   /\ last_call' = Call("log_tool_execution", <<tool_call.name>>, None, "None")
                   /\ tool_results' = Append(tool_results, result)
                   /\ IF StopsBatch(result)
                      THEN /\ response' = PendingResponse(content, tool_calls, current_iteration)
                           /\ pc' = "idle"
                           /\ UNCHANGED <<messages, tool_index>>
                      ELSE IF rendered.raised
                           THEN /\ response' = CatchLoopException(rendered.text, current_iteration)
                                /\ pc' = "idle"
                                /\ UNCHANGED <<messages, tool_index>>
                           ELSE /\ messages' = AppendToContext(messages,
                                                  ToolMessage(tool_call.id, rendered.text))
                                /\ IF tool_index < Len(tool_calls)
                                   THEN /\ tool_index' = tool_index + 1
                                        /\ pc' = "tools"
                                   ELSE /\ tool_index' = tool_index
                                        /\ pc' = "loop"
                                /\ UNCHANGED response
    /\ UNCHANGED <<config, elsewhere, clock, current_iteration, content, tool_calls,
                   adapter_calls, history_before, last_turn, invocations>>

Next ==
    \/ \E user_message \in UserMessages : ProcessMessage(user_message)
    \/ MaxIterationsReached
    \/ \E exc \in AdapterErrors : GenerateRaises(exc)
    \/ \E text \in FinalTexts : GenerateFinalAnswer(text)
    \/ \E text \in TurnTexts, names \in Batches : GenerateToolCalls(text, names)
    \/ \E env \in {"rows", "many_rows", "raise", "answer", "none"} :
            ExecuteToolCall(env)

Spec == Init /\ [][Next]_vars

\* A step of an invocation in progress.  The adapter call and every tool call
\* return, so a step that is possible is eventually taken.
InvocationStep ==
    \/ MaxIterationsReached
    \/ \E exc \in AdapterErrors : GenerateRaises(exc)
    \/ \E text \in FinalTexts : GenerateFinalAnswer(text)
    \/ \E text \in TurnTexts, names \in Batches : GenerateToolCalls(text, names)
    \/ \E env \in {"rows", "many_rows", "raise", "answer", "none"} :
            ExecuteToolCall(env)

FairSpec == Spec /\ WF_vars(InvocationStep)

\* ------------------------------------- the store driven through its methods
loop == <<pc, messages, current_iteration, content, tool_calls, tool_index,
          tool_results, response, adapter_calls, dispatched, history_before,
          last_turn, invocations>>

\* The arguments the store's methods are called with
StoreMessages == {<<"user", "load the sales data">>, <<"assistant", "done">>}
LoggedResults == {<<TimestampRows, None>>, <<NoData, "SQL error">>}
UpdatePhaseCalls ==
    {<<"phase_0_infrastructure", IN_PROGRESS, <<>>, "create database", None>>,
     <<"phase_0_infrastructure", COMPLETED, <<1>>, "create warehouse", None>>,
     <<"cleanup", FAILED, <<>>, "", "drop failed">>}
SchemaNames == {"BRONZE", "SILVER"}
UnknownSessionId == "20231231_235959"

\* The session ids load_session is called with: those with a file, and one
\* without
LoadableIds == DOMAIN state_files \cup DOMAIN history_files \cup {UnknownSessionId}

\* A call on the store between two invocations of process_message; the clock
\* has moved on when the next call comes.
StoreCall(op, args, out) ==
    /\ pc = "idle"
    /\ clock < MaxStoreCalls
    /\ clock' = clock + 1
    /\ Becomes(out)
    /\ last_call' = Call(op, args, out.raised, "None")
    /\ UNCHANGED <<config, elsewhere, loop>>

\* A new process: AgentMemory.__init__ over the same two directories
AgentMemory_init ==
    StoreCall("__init__", <<>>, Outcome(NewMemory, Files, None))

add_message(role, text) ==
    StoreCall("add_message", <<role, text>>,
              AddMessageCall(Memory, Files, role, text, clock))

clear_messages ==
    StoreCall("clear_messages", <<>>, ClearMessages(Memory, Files))

log_tool_execution(result, error) ==
    StoreCall("log_tool_execution", <<"execute_snowflake_query">>,
              LogToolExecutionCall(Memory, Files, "execute_snowflake_query", QueryArgs,
                                   result, error, clock))

update_phase(phase_key, status, current_step, step_completed, error) ==
    StoreCall("update_phase", <<phase_key, status, current_step, step_completed, error>>,
              UpdatePhaseCall(Memory, Files, phase_key, status, current_step,
                              step_completed, error, clock))

set_current_phase(phase) ==
    StoreCall("set_current_phase", <<phase>>, SetCurrentPhase(Memory, Files, phase, clock))

add_discovered_file(source, filename) ==
    StoreCall("add_discovered_file", <<source, filename>>,
              AddDiscoveredFile(Memory, Files, source, filename, clock))

add_inferred_schema(filename, schema) ==
    StoreCall("add_inferred_schema", <<filename, schema>>,
              AddInferredSchema(Memory, Files, filename, schema, clock))

add_created_table(table_name) ==
    StoreCall("add_created_table", <<table_name>>,
              AddCreatedTable(Memory, Files, table_name, clock))

add_loaded_table(table_name) ==
    StoreCall("add_loaded_table", <<table_name>>,
              AddLoadedTable(Memory, Files, table_name, clock))

set_infrastructure_ready ==
    StoreCall("set_infrastructure_ready", <<>>, SetInfrastructureReady(Memory, Files, clock))

add_created_schema(schema_name) ==
    StoreCall("add_created_schema", <<schema_name>>,
              AddCreatedSchemaCall(Memory, Files, schema_name, clock))

add_created_file_format(file_format) ==
    StoreCall("add_created_file_format", <<file_format>>,
              AddCreatedFileFormat(Memory, Files, file_format, clock))

load_session(id) ==
    LET r == LoadSession(Memory, Files, id)
    IN  /\ pc = "idle"
        /\ clock < MaxStoreCalls
        /\ clock' = clock + 1
        /\ Becomes(Outcome(r.memory, Files, None))
        /\ last_call' = Call("load_session", <<id>>, None,
                             IF r.returned THEN "True" ELSE "False")
        /\ UNCHANGED <<config, elsewhere, loop>>

StoreInit ==
    /\ Init
    /\ max_iterations = MinMaxIterations
    /\ memory_window = MinMemoryWindow
    /\ on_user_input_needed = FALSE

StoreNext ==
    \/ AgentMemory_init
    \/ \E msg \in StoreMessages : add_message(msg[1], msg[2])
    \/ clear_messages
    \/ \E r \in LoggedResults : log_tool_execution(r[1], r[2])
    \/ \E c \in UpdatePhaseCalls : update_phase(c[1], c[2], c[3], c[4], c[5])
    \/ set_current_phase("phase_1_discovery")
    \/ add_discovered_file("stage", "sales.csv")
    \/ add_inferred_schema("sales.csv", <<"ID NUMBER">>)
    \/ add_created_table("SALES")
    \/ add_loaded_table("SALES")
    \/ set_infrastructure_ready
    \/ \E schema_name \in SchemaNames : add_created_schema(schema_name)
    \/ add_created_file_format("CSV_FORMAT")
    \/ \E id \in LoadableIds : load_session(id)

StoreSpec == StoreInit /\ [][StoreNext]_vars

\* ------------------------------------------------------------ properties
Returned == pc = "idle" /\ response.kind # "none"

DispatchedIds == [k \in 1..Len(dispatched) |-> dispatched[k].id]

PendingAt(i) == tool_results[i].status = PENDING_APPROVAL

\* C1: whenever a tool result of the batch is PENDING_APPROVAL, it is the last
\* call of the batch handed to _execute_tool (no later call is executed), the
\* invocation has returned a response with needs_user_input = TRUE, and the
\* adapter was called once per iteration up to that batch and not again.
C1_PendingStopsBatch ==
    \A i \in 1..Len(tool_results) :
        PendingAt(i) =>
            /\ i = Len(tool_results)
            /\ Len(dispatched) = i
            /\ DispatchedIds = [k \in 1..i |-> tool_calls[k].id]
            /\ pc = "idle"
            /\ response.kind = "response"
            /\ response.needs_user_input = TRUE
            /\ response.error = None
            /\ adapter_calls = response.iteration
            /\ adapter_calls = current_iteration

\* A pending result was returned while a later call of the batch was waiting.
C1_Witness ==
    /\ tool_results # <<>>
    /\ PendingAt(Len(tool_results))
    /\ Len(tool_results) < Len(tool_calls)
    /\ Returned

NoPendingResult == \A i \in 1..Len(tool_results) : ~PendingAt(i)

C3_Terminates ==
    /\ [](adapter_calls <= max_iterations /\ adapter_calls = current_iteration)
    /\ (pc # "idle") ~> Returned

\* An invocation returned after calling the adapter max_iterations > 1 times.
C3_Witness ==
    /\ Returned
    /\ max_iterations > 1
    /\ adapter_calls = max_iterations

\* Position in the working context of the assistant turn of the current batch
BatchStart ==
    CHOOSE i \in 1..Len(messages) :
        /\ "tool_calls" \in DOMAIN messages[i]
        /\ \A j \in (i + 1)..Len(messages) : "tool_calls" \notin DOMAIN messages[j]

\* The tool-call ids of the tool turns appended for the current batch
BatchToolMessageIds ==
    [k \in 1..(Len(messages) - BatchStart) |-> messages[BatchStart + k].tool_call_id]

RequestedIds == [k \in 1..Len(tool_calls) |-> tool_calls[k].id]

BatchOver == last_turn.kind = "tools" /\ pc \in {"loop", "idle"}

IsSuffix(s, t) ==
    /\ Len(s) <= Len(t)
    /\ \A i \in 1..Len(s) : s[i] = t[Len(t) - Len(s) + i]

\* The (role, content) pairs of the persisted history
RoleContent(msgs) ==
    [i \in 1..Len(msgs) |-> [role |-> msgs[i].role, content |-> msgs[i].content]]

\* C5: for every history the session reaches and the configured window
\* W >= 1, get_context_messages() returns at most W entries, namely the last
\* min(W, length) entries of the history in their order; the working context
\* an invocation starts from is that window.
C5_ContextIsWindowedSuffix ==
    LET context == GetContextMessages(memory_messages, memory_window)
    IN  /\ Len(context) <= memory_window
        /\ Len(context) = Min(memory_window, Len(memory_messages))
        /\ IsSuffix(context, RoleContent(memory_messages))
        /\ (pc = "loop" /\ adapter_calls = 0) => messages = context

\* An invocation starts from a history longer than the window, holding
\* messages of both roles.
C5_Witness ==
    /\ pc = "loop"
    /\ adapter_calls = 0
    /\ Len(memory_messages) > memory_window
    /\ memory_window > 1
    /\ messages[1].role = "assistant"

\* The for loop goes on after the call at tool_index: to the next call of the
\* batch, or, after the last one, back to the while loop; nothing is returned.
LoopGoesOn ==
    /\ response' = response
    /\ current_iteration' = current_iteration
    /\ IF tool_index < Len(tool_calls)
       THEN pc' = "tools" /\ tool_index' = tool_index + 1
       ELSE pc' = "loop"

\* From the head of the while loop, below the bound, the only step is a call
\* of the adapter.
AdapterIsCalledNext ==
    (pc = "loop" /\ current_iteration < max_iterations) =>
        adapter_calls' = adapter_calls + 1

\* C6: a tool call whose name has no branch in _execute_tool gives the result
\* ERROR, "Unknown tool: <name>"; it is rendered and appended as a tool turn,
\* process_message returns nothing at that call, the next call of the batch is
\* executed next, and after the last call the loop is back at its head, where
\* the next step is a call of the adapter (below the iteration bound; at the
\* bound the loop ends as it does after any other tool call).
C6_UnknownToolContinues ==
    [][/\ (pc = "tools" /\ tool_calls[tool_index].name \notin HandledToolNames) =>
            LET call == tool_calls[tool_index]
            IN  /\ tool_results' =
                       Append(tool_results,
                              ToolResult(call.name, ERROR, NoData,
                                         "Unknown tool: " \o call.name))
                /\ messages' =
                       Append(messages,
                              ToolMessage(call.id,
                                          "[" \o call.name \o "] failed with error: "
                                          \o "Unknown tool: " \o call.name))
                /\ LoopGoesOn
       /\ AdapterIsCalledNext]_vars

IsToolTurn(m) == m.role = "tool"

\* After an unknown tool the rest of the batch was executed and the adapter
\* was called again.
C6_Witness ==
    /\ adapter_calls = 2
    /\ \E i \in 1..(Len(messages) - 1) :
          /\ IsToolTurn(messages[i])
          /\ messages[i].content =
                "[delete_github_file] failed with error: Unknown tool: delete_github_file"
          /\ IsToolTurn(messages[i + 1])

\* C7: when the handler of a tool call raises, _execute_tool returns an ERROR
\* result carrying the exception text; it is appended to the working context
\* as a tool turn, process_message returns nothing at that call (no error
\* response, no exception), and the loop goes on: the next call of the batch,
\* or from the loop head the next adapter call (below the iteration bound).
C7_ToolExceptionIsFedBack ==
    [][/\ (/\ pc = "tools"
           /\ Len(dispatched') = Len(dispatched) + 1
           /\ dispatched'[Len(dispatched')].env = "raise") =>
            LET call == tool_calls[tool_index]
            IN  /\ tool_results' =
                       Append(tool_results,
                              ToolResult(call.name, ERROR, NoData, ExceptionText))
                /\ messages' =
                       Append(messages,
                              ToolMessage(call.id,
                                          "[" \o call.name \o "] failed with error: "
                                          \o ExceptionText))
                /\ LoopGoesOn
       /\ AdapterIsCalledNext]_vars

\* A handler raised and the adapter was called again afterwards.
C7_Witness ==
    /\ adapter_calls = 2
    /\ response.error = None
    /\ \E i \in 1..Len(messages) :
          /\ IsToolTurn(messages[i])
          /\ messages[i].content =
                "[execute_snowflake_query] failed with error: " \o ExceptionText

\* The persisted history of the invocation: what it was before, and the user
\* message.
HistoryWithUserMessage ==
    /\ Len(memory_messages) > Len(history_before)
    /\ SubSeq(memory_messages, 1, Len(history_before)) = history_before
    /\ memory_messages[Len(history_before) + 1].role = "user"
    /\ memory_messages[Len(history_before) + 1].content \in UserMessages

\* C8: when llm.generate raises in an iteration, process_message returns (it
\* does not raise) a response with error = the exception text, empty content,
\* no tool calls, needs_user_input = FALSE and iteration = that iteration; the
\* history holds the user message and no assistant message of the invocation.
C8_AdapterErrorResponse ==
    (pc = "idle" /\ last_turn.kind = "raise") =>
        /\ response = AgentResponse("", <<>>, FALSE, last_turn.exc, adapter_calls)
        /\ last_turn.exc \in AdapterErrors
        /\ HistoryWithUserMessage
        /\ Len(memory_messages) = Len(history_before) + 1

\* The adapter raised in the second iteration of an invocation.
C8_Witness ==
    /\ pc = "idle"
    /\ last_turn.kind = "raise"
    /\ adapter_calls = 2

\* C9: when llm.generate returns no tool call in iteration k, the assistant
\* text is appended to the persisted history and process_message returns a
\* response with that text, no tool calls, needs_user_input = FALSE, error
\* unset and iteration = k.
C9_FinalAnswerResponse ==
    (pc = "idle" /\ last_turn.kind = "final") =>
        /\ response = AgentResponse(content, <<>>, FALSE, None, adapter_calls)
        /\ content \in FinalTexts
        /\ memory_messages[Len(memory_messages)] = Message("assistant", content)

\* A final answer was given in the second iteration, after a tool turn.
C9_Witness ==
    /\ pc = "idle"
    /\ last_turn.kind = "final"
    /\ adapter_calls = 2
    /\ \E i \in 1..Len(messages) : IsToolTurn(messages[i])

\* C10: an invocation appends to the persisted history the user message, and
\* after it one assistant message exactly when it ended with a final answer;
\* the assistant tool-call turn and the tool turns are in the working context
\* only: the history holds user and assistant (role, content) messages alone.
C10_HistoryGrowth ==
    /\ \A i \in 1..Len(memory_messages) :
          /\ DOMAIN memory_messages[i] = {"role", "content"}
          /\ memory_messages[i].role \in {"user", "assistant"}
    /\ (invocations > 0) =>
          /\ HistoryWithUserMessage
          /\ IF pc = "idle" /\ last_turn.kind = "final"
             THEN /\ Len(memory_messages) = Len(history_before) + 2
                  /\ memory_messages[Len(memory_messages)] = Message("assistant", content)
             ELSE Len(memory_messages) = Len(history_before) + 1

\* A second invocation returned without a final answer after tool turns were
\* added to its working context, the first having ended with a final answer.
C10_Witness ==
    /\ Returned
    /\ invocations = 2
    /\ last_turn.kind = "tools"
    /\ Len(history_before) = 2
    /\ \E i \in 1..Len(messages) : IsToolTurn(messages[i])

\* The step hands one more call of the batch to _execute_tool.
DispatchStep == Len(dispatched') = Len(dispatched) + 1

\* C11: every step that hands a tool call to _execute_tool, whatever the
\* outcome, appends exactly one record to the tool-execution log, for that tool
\* name and those arguments; every other step (among them the return after a
\* pending-approval stop, which leaves the rest of the batch unexecuted) leaves
\* the log as it is; the records already in the log are never changed or removed.
C11_OneLogRecordPerDispatch ==
    [][IF DispatchStep
       THEN /\ Len(tool_history') = Len(tool_history) + 1
            /\ SubSeq(tool_history', 1, Len(tool_history)) = tool_history
            /\ tool_history'[Len(tool_history')].tool_name = tool_calls[tool_index].name
            /\ tool_history'[Len(tool_history')].input_params
                   = tool_calls[tool_index].arguments
       ELSE tool_history' = tool_history]_vars

\* A batch of two calls was stopped at its first call, held for approval: the
\* log holds the record of that call and none of the call after it.
C11_Witness ==
    /\ Returned
    /\ Len(tool_calls) = 2
    /\ Len(tool_results) = 1
    /\ PendingAt(1)
    /\ Len(tool_history) = 1
    /\ tool_history[1].tool_name = "request_user_input"

StoreStep(op) == clock' = clock + 1 /\ last_call'.op = op

\* C13: for every state of the store, writing the session with _save_state and
\* _save_history and then loading it by its id, into a new store or into this
\* one, succeeds and gives back the same session id, state, tool-execution log
\* and ordered message list.
C13_SaveLoadRoundTrip ==
    LET state_saved == SaveState(Memory, Files, clock)
        saved == SaveHistory(state_saved.memory, state_saved.files, clock)
    IN  \A target \in {NewMemory, Memory} :
            LET back == LoadSession(target, saved.files, saved.memory.session_id)
            IN  back.returned /\ back.memory = saved.memory

\* C14: a call load_session(id) for an id without state file returns False and
\* leaves the session id, the state, the message list and the tool-execution
\* log as they were, whether or not a history file of that id exists.
C14_LoadWithoutStateFile ==
    [][(StoreStep("load_session") /\ last_call'.args[1] \notin DOMAIN state_files) =>
            /\ last_call'.returned = "False"
            /\ UNCHANGED <<session_id, state, memory_messages, tool_history>>]_vars

\* load_session returned False in a store that holds a session with messages
\* and log records.
C14_Witness ==
    /\ last_call.op = "load_session"
    /\ last_call.returned = "False"
    /\ Truthy(session_id)
    /\ memory_messages # <<>>
    /\ tool_history # <<>>

\* C15: after a call load_session(id) that returned True for an id without
\* history file, the message list of the store is empty.
C15_LoadWithoutHistoryFile ==
    (/\ last_call.op = "load_session"
     /\ last_call.returned = "True"
     /\ last_call.args[1] \notin DOMAIN history_files) =>
        memory_messages = <<>>

\* s is a prefix of t
IsPrefix(s, t) == Len(s) <= Len(t) /\ SubSeq(t, 1, Len(s)) = s

\* C16 as stated: every step that stays in the session leaves the previous
\* message list as a prefix of the new one.
C16_HistoryAppendOnly ==
    [][(session_id' = session_id) => IsPrefix(memory_messages, memory_messages')]_vars

\* C16, amended: add_message appends one message to the list and writes the
\* whole list to the history file of the session; clear_messages empties the
\* list and writes no file; every other step that stays in the session leaves
\* the previous list as a prefix of the new one.
C16_AppendOnlyUntilCleared ==
    [][/\ StoreStep("add_message") =>
            /\ memory_messages' =
                   Append(memory_messages,
                          Message(last_call'.args[1], last_call'.args[2]))
            /\ history_files'[session_id'] = memory_messages'
       /\ StoreStep("clear_messages") =>
            /\ memory_messages' = <<>>
            /\ history_files' = history_files
       /\ (session_id' = session_id /\ ~StoreStep("clear_messages")) =>
            IsPrefix(memory_messages, memory_messages')]_vars

\* A message was added after the list was cleared: the history file holds the
\* new message alone.
C16_Witness ==
    /\ last_call.op = "add_message"
    /\ Len(memory_messages) = 1
    /\ clock = 3
    /\ history_files[session_id] = memory_messages
    /\ memory_messages[1].role = "assistant"

MutatingCalls ==
    {"update_phase", "log_tool_execution", "set_current_phase", "add_discovered_file",
     "add_inferred_schema", "add_created_table", "add_loaded_table",
     "add_created_schema", "add_created_file_format", "set_infrastructure_ready"}

\* C17: after each of the ten mutating calls the state file of the session
\* exists and holds the state and the tool-execution log of the store as they
\* are in memory.
C17_StateFileIsCurrent ==
    (last_call.op \in MutatingCalls) =>
        /\ session_id \in DOMAIN state_files
        /\ state_files[session_id] = StateData(Memory)

\* The phase entry of key before a call, an untouched entry when there is none
PhaseBefore(key) ==
    IF state # NoState /\ key \in DOMAIN state.phases THEN state.phases[key]
    ELSE PhaseProgress(key, 0)

\* C18: a call update_phase(key, status) sets started_at of the phase to the
\* time of the call when status is IN_PROGRESS and started_at is unset, and in
\* no other case changes it; it sets completed_at to the time of the call when
\* status is COMPLETED, and in no other case changes it; the time stamps of the
\* other phases stay as they are.
C18_PhaseTimeStamps ==
    [][StoreStep("update_phase") =>
            \A key \in DOMAIN state'.phases :
                LET before == PhaseBefore(key)
                    after == state'.phases[key]
                    called == key = last_call'.args[1]
                    status == last_call'.args[2]
                    now == IsoFormat(clock)
                IN  /\ after.started_at =
                           IF called /\ status = IN_PROGRESS /\ before.started_at = None
                           THEN now ELSE before.started_at
                    /\ after.completed_at =
                           IF called /\ status = COMPLETED THEN now
                           ELSE before.completed_at]_vars

\* A phase entered IN_PROGRESS and COMPLETED twice each: it started at the
\* first entry and completed at the last.
C18_Witness ==
    /\ last_call.op = "update_phase"
    /\ state.phases["phase_0_infrastructure"].started_at = IsoFormat(0)
    /\ state.phases["phase_0_infrastructure"].completed_at = IsoFormat(3)

NoDuplicates(xs) == \A i, j \in 1..Len(xs) : xs[i] = xs[j] => i = j

\* C19: no phase ever holds a step twice in steps_completed, and a call
\* update_phase(key, step) either leaves the list of the phase as it is (no
\* step given, or the step is in the list) or appends the step at its end; the
\* lists of the other phases stay as they are.
C19_StepsCompletedOnce ==
    /\ [](state # NoState =>
            \A key \in DOMAIN state.phases : NoDuplicates(state.phases[key].steps_completed))
    /\ [][StoreStep("update_phase") =>
            \A key \in DOMAIN state'.phases :
                LET before == PhaseBefore(key).steps_completed
                    after == state'.phases[key].steps_completed
                    step == last_call'.args[4]
                IN  after = IF /\ key = last_call'.args[1]
                               /\ Truthy(step)
                               /\ ~Contains(before, step)
                            THEN Append(before, step) ELSE before]_vars

\* A step completed first was reported again after a second step: the list
\* holds the two steps in the order of their first completion.
C19_Witness ==
    /\ last_call.op = "update_phase"
    /\ last_call.args[4] = "create database"
    /\ state.phases["phase_0_infrastructure"].steps_completed
           = <<"create database", "create warehouse">>

\* The number of places of xs that hold x
RECURSIVE Count(_, _)
Count(xs, x) ==
    IF xs = <<>> THEN 0 ELSE (IF Head(xs) = x THEN 1 ELSE 0) + Count(Tail(xs), x)

\* xs without its entries equal to x
RECURSIVE Without(_, _)
Without(xs, x) ==
    IF xs = <<>> THEN <<>>
    ELSE IF Head(xs) = x THEN Without(Tail(xs), x)
         ELSE <<Head(xs)>> \o Without(Tail(xs), x)

SchemasBefore == IF state = NoState THEN <<>> ELSE state.schemas_created

\* C20: after a call add_created_schema(X), X is in the schema list exactly
\* once, the other entries and their order are as before, and a list that held
\* X already is unchanged: calling it again changes nothing.
C20_AddCreatedSchemaIdempotent ==
    [][StoreStep("add_created_schema") =>
            LET X == last_call'.args[1]
                after == state'.schemas_created
            IN  /\ Count(after, X) = 1
                /\ Without(after, X) = Without(SchemasBefore, X)
                /\ Contains(SchemasBefore, X) => after = SchemasBefore]_vars

\* A schema was added again after a second one: the list is as it was.
C20_Witness ==
    /\ last_call.op = "add_created_schema"
    /\ last_call.args[1] = "BRONZE"
    /\ state.schemas_created = <<"BRONZE", "SILVER">>

\* ------------------------------------------- tools/Base.py on its own
\* RenderSpec applies ToolResult.to_message to the results a tool can hand
\* back: every status, the payloads None, {} and a dict, lists of 0 to
\* ManyRows dict rows and lists of strings.
ResultToolNames == {"snowflake", "github"}
Statuses == {SUCCESS, ERROR, TIMEOUT, CANCELLED, PENDING_APPROVAL}
Payloads ==
    {NoData, EmptyDictData, DictData("{'rows_affected': 1}")}
    \cup {ListData(n) : n \in 0..ManyRows}
    \cup {NamesData(n) : n \in {0, FewRows}}
ResultErrors == {None, "SQL error"}

to_message(tool_name, status, data, error) ==
    /\ pc = "idle"
    /\ rendering' = Rendered(ToolResult(tool_name, status, data, error))
    /\ UNCHANGED <<config, store, clock, last_call, loop, executed, catalogue, adapter, interactive, server, sessions>>

RenderInit ==
    /\ Init
    /\ max_iterations = MinMaxIterations
    /\ memory_window = MinMemoryWindow
    /\ on_user_input_needed = FALSE

RenderNext ==
    \E tool_name \in ResultToolNames, status \in Statuses, data \in Payloads,
       error \in ResultErrors :
        to_message(tool_name, status, data, error)

RenderSpec == RenderInit /\ [][RenderNext]_vars

\* The header of a rendering
Tag(result) == "[" \o result.tool_name \o "]"

\* The lines " Row <i>: <row>" for i = 1..m, one under the other
RECURSIVE RowsShown(_)
RowsShown(m) ==
    IF m = 0 THEN ""
    ELSE RowsShown(m - 1) \o (IF m > 1 THEN "\n" ELSE "")
         \o " Row " \o ToString(m) \o ": " \o RowText(m)

\* The rows of a rendered list of n dict rows: min(n, 20) lines, and the
\* trailing line exactly when n > 20
RowsRendered(n) ==
    RowsShown(Min(n, DisplayRows))
    \o (IF n > DisplayRows
        THEN "\n... and " \o ToString(n - DisplayRows) \o " more rows" ELSE "")

\* The "Returned <n> rows" form of a result
ReturnedRows(result) ==
    Tag(result) \o " Executed successfully. Returned " \o ToString(result.data.n)
    \o " rows:\n"
    \o (IF result.data.kind = "list" THEN RowsRendered(result.data.n)
        ELSE result.data.repr)

\* C21: rendering returns a text for every result, and the text is the one
\* of the result's case: failure, empty list, non-empty list, non-empty
\* payload that is no list, empty or None payload.
C21_RenderingCases ==
    rendering.done =>
        LET result == rendering.result
        IN  /\ ~rendering.out.raised
            /\ rendering.out.text =
                  IF result.status # SUCCESS
                  THEN Tag(result) \o " failed with error: " \o PyStr(result.error)
                  ELSE IF IsList(result.data) /\ result.data.n = 0
                  THEN Tag(result) \o " Executed successfully. No results returned"
                  ELSE IF IsList(result.data)
                  THEN ReturnedRows(result)
                  ELSE IF DataTruthy(result.data)
                  THEN Tag(result) \o " Executed successfully:\n" \o result.data.repr
                  ELSE Tag(result) \o " Executed successfully."

\* C22: a successful list of n > 0 dict rows renders, for every n, to the
\* header reporting n rows, min(n, 20) lines " Row <i>: <row>" numbered from
\* 1, and the line "... and <n-20> more rows" exactly when n > 20.
C22_RowsRendering ==
    (/\ rendering.done
     /\ rendering.result.status = SUCCESS
     /\ rendering.result.data.kind = "list"
     /\ rendering.result.data.n > 0) =>
        /\ ~rendering.out.raised
        /\ rendering.out.text = ReturnedRows(rendering.result)

\* text[:len(prefix)] == prefix
BeginsWith(text, prefix) ==
    /\ Len(text) >= Len(prefix)
    /\ SubSeq(text, 1, Len(prefix)) = prefix

MaxDispatches == 2

ProgressPhases == {"phase_0_infrastructure", "cleanup"}
ProgressSteps == {"create database", ""}
ProgressStatuses == {<<>>, <<"in_progress">>, <<"completed">>, <<"failed">>, <<"paused">>}

ExecuteToolDirect(tool_name, arguments, env) ==
    /\ pc = "idle"
    /\ clock < MaxDispatches
    /\ clock' = clock + 1
    /\ \E out \in {ExecuteToolOnStore(Memory, Files, tool_name, arguments, env,
                                      on_user_input_needed, clock)} :
           /\ Becomes(Outcome(out.memory, out.files, None))
           /\ executed' = Executed(tool_name, arguments, env, out.result)
    /\ last_call' = Call("log_tool_execution", <<tool_name>>, None, "None")
    /\ UNCHANGED <<config, loop, rendering, catalogue, adapter, interactive, server, sessions>>

request_user_input(env) ==
    /\ env \in (IF on_user_input_needed THEN {"answer", "raise"} ELSE {"none"})
    /\ ExecuteToolDirect("request_user_input", QuestionArgs, env)

update_progress(phase, step, status) ==
    ExecuteToolDirect("update_progress", ProgressArgs(phase, step, status), "none")

execute_snowflake_query(env) ==
    ExecuteToolDirect("execute_snowflake_query", QueryArgs, env)

delete_github_file ==
    ExecuteToolDirect("delete_github_file", NoArgs, "none")

DispatchInit ==
    /\ Init
    /\ max_iterations = MinMaxIterations
    /\ memory_window = MinMemoryWindow

DispatchNext ==
    \/ \E env \in {"answer", "raise", "none"} : request_user_input(env)
    \/ \E phase \in ProgressPhases, step \in ProgressSteps, status \in ProgressStatuses :
            update_progress(phase, step, status)
    \/ \E env \in {"rows", "raise"} : execute_snowflake_query(env)
    \/ delete_github_file

DispatchSpec == DispatchInit /\ [][DispatchNext]_vars

\* The last call of _execute_tool on its own was for the tool tool_name.
ExecutedTool(tool_name) == executed.done /\ executed.tool_name = tool_name

AnswerData == DictData("{'user_response': 'yes'}")
QuestionData == DictData("{'question': 'Proceed?', 'context': ''}")

\* C24 as stated: request_user_input returns SUCCESS with the callback's
\* answer when a callback is registered, PENDING_APPROVAL with the question
\* and the context when none is, and no other status.
C24_AnswerOrPending ==
    ExecutedTool("request_user_input") =>
        IF on_user_input_needed
        THEN executed.result.status = SUCCESS /\ executed.result.data = AnswerData
        ELSE executed.result.status = PENDING_APPROVAL
             /\ executed.result.data = QuestionData

\* C24, amended: SUCCESS with the answer when the registered callback
\* returns, ERROR with the exception's text and no payload when it raises,
\* PENDING_APPROVAL with the question and the context when no callback is
\* registered; the result carries the requested name.
C24_AnswerErrorOrPending ==
    ExecutedTool("request_user_input") =>
        /\ executed.result.tool_name = "request_user_input"
        /\ IF ~on_user_input_needed
           THEN /\ executed.result.status = PENDING_APPROVAL
                /\ executed.result.data = QuestionData
                /\ executed.result.error = None
           ELSE IF executed.env = "raise"
           THEN /\ executed.result.status = ERROR
                /\ executed.result.data = NoData
                /\ executed.result.error = ExceptionText
           ELSE /\ executed.result.status = SUCCESS
                /\ executed.result.data = AnswerData
                /\ executed.result.error = None

\* The registered callback raised and the call returned an ERROR result.
C24_Witness ==
    /\ ExecutedTool("request_user_input")
    /\ on_user_input_needed
    /\ executed.env = "raise"
    /\ executed.result.status = ERROR

\* ------------------------------------------- the tool catalogue on its own
\* CatalogueSpec constructs a DACLI object for a configuration and calls the
\* adapter with its catalogue.  The dict operations of a category is one of:
\* empty ("none"); every operation of the category enabled ("all"); the
\* first operation of the category disabled, the others enabled
\* ("first_off"); every operation of the category disabled and one
\* operation of another category enabled ("foreign").  ToolConfig.operations
\* is Dict[str, bool]: every one of them loads.
MaxGenerateCalls == 2

Listings == {"none", "all", "first_off", "foreign"}

FirstOperation(category) ==
    IF category = "snowflake" THEN "execute_snowflake_query"
    ELSE IF category = "pinecone" THEN "search_snowflake_docs"
    ELSE "list_github_directory"

ForeignOperation(category) ==
    IF category = "snowflake" THEN "read_github_file" ELSE "execute_snowflake_query"

OperationsDict(category, listing) ==
    IF listing = "none" THEN [op \in {} |-> TRUE]
    ELSE IF listing = "all" THEN [op \in OperationsOf(category) |-> TRUE]
    ELSE IF listing = "first_off"
    THEN [op \in OperationsOf(category) |-> op # FirstOperation(category)]
    ELSE [op \in OperationsOf(category) \cup {ForeignOperation(category)} |->
             op = ForeignOperation(category)]

\* ToolsSettings(**config["tools"]); enabled and listing are triples, one
\* entry for snowflake, github and pinecone each
ToolsSettings(enabled, listing) ==
    [snowflake |-> ToolConfig(enabled[1], OperationsDict("snowflake", listing[1])),
     github |-> ToolConfig(enabled[2], OperationsDict("github", listing[2])),
     pinecone |-> ToolConfig(enabled[3], OperationsDict("pinecone", listing[3]))]

\* DACLI.__init__, lines 236-238 and 273-274
DACLI_init(enabled, listing) ==
    /\ pc = "idle"
    /\ ~catalogue.built
    /\ \E tools_settings \in {ToolsSettings(enabled, listing)} :
           catalogue' = [built |-> TRUE, tools_settings |-> tools_settings,
                         tools |-> BuildToolDefinitions(tools_settings),
                         handed |-> <<>>]
    /\ UNCHANGED <<config, store, clock, last_call, loop, rendering, executed, adapter, interactive, server, sessions>>

\* agent.py:839-843: llm.generate(tools=self._tools)
generate_with_tools ==
    /\ pc = "idle"
    /\ catalogue.built
    /\ clock < MaxGenerateCalls
    /\ clock' = clock + 1
    /\ catalogue' = [catalogue EXCEPT !.handed = catalogue.tools]
    /\ UNCHANGED <<config, store, last_call, loop, rendering, executed, adapter, interactive, server, sessions>>

CatalogueInit ==
    /\ Init
    /\ max_iterations = MinMaxIterations
    /\ memory_window = MinMemoryWindow
    /\ on_user_input_needed = FALSE

CatalogueNext ==
    \/ \E enabled \in BOOLEAN \X BOOLEAN \X BOOLEAN,
          listing \in Listings \X Listings \X Listings :
            DACLI_init(enabled, listing)
    \/ generate_with_tools

CatalogueSpec == CatalogueInit /\ [][CatalogueNext]_vars

\* x in xs, of the catalogue
InCatalogue(name, tools) == \E i \in 1..Len(tools) : tools[i] = name

\* The operation is enabled in the configuration of its category
EnabledInCategory(tools_settings, category, op) ==
    /\ tools_settings[category].enabled
    /\ op \in DOMAIN tools_settings[category].operations
    /\ tools_settings[category].operations[op]

\* C25: whatever the configuration, the catalogue handed to the adapter holds
\* request_user_input and update_progress, holds the descriptor of an
\* operation of a category if and only if the category is enabled and the
\* operation is enabled in it, and is the same at every call of the session.
C25_CatalogueMatchesConfiguration ==
    /\ [](catalogue.built =>
            /\ InCatalogue("request_user_input", catalogue.tools)
            /\ InCatalogue("update_progress", catalogue.tools)
            /\ \A category \in ToolCategories : \A op \in OperationsOf(category) :
                   InCatalogue(op, catalogue.tools)
                   <=> EnabledInCategory(catalogue.tools_settings, category, op))
    /\ [][catalogue.built =>
            /\ catalogue'.tools = catalogue.tools
            /\ catalogue'.handed = catalogue.tools]_vars

\* The step is a call of _execute_tool for update_progress.
UpdateProgressStep ==
    /\ clock' = clock + 1
    /\ executed'.done
    /\ executed'.tool_name = "update_progress"

\* The status string the call names, None when it names none
NamedStatus(arguments) == ArgGet(arguments, "status", None)

StatusStrings == {"in_progress", "completed", "failed"}

\* The PhaseStatus of a status string of the descriptor
StatusNamed(status) ==
    IF status = "completed" THEN COMPLETED
    ELSE IF status = "failed" THEN FAILED
    ELSE IN_PROGRESS

\* C26 as stated: update_progress returns SUCCESS, sets the status of the
\* named phase to the status named by in_progress, completed or failed, has
\* the step among the completed steps of the phase, and changes the status of
\* a phase only to the status the call names.
C26_UpdateProgress ==
    [][UpdateProgressStep =>
        LET arguments == executed'.arguments
            named == NamedStatus(arguments)
        IN  /\ executed'.result.status = SUCCESS
            /\ named \in StatusStrings =>
                    state'.phases[arguments.phase].status = StatusNamed(named)
            /\ Contains(state'.phases[arguments.phase].steps_completed, arguments.step)
            /\ \A key \in DOMAIN state'.phases :
                   state'.phases[key].status # PhaseBefore(key).status =>
                       /\ key = arguments.phase
                       /\ named \in StatusStrings
                       /\ state'.phases[key].status = StatusNamed(named)]_vars

\* C26, amended: update_progress returns SUCCESS with the phase, the step and
\* the status string as payload; the named phase, created when the state has
\* none of that name, gets the status COMPLETED for completed, FAILED for
\* failed and IN_PROGRESS for in_progress, for any other string and for no
\* status at all; a non-empty step is appended to the completed steps of the
\* phase unless it is among them; the other phases keep status and steps.
C26_UpdateProgressDefaultsToInProgress ==
    [][UpdateProgressStep =>
        LET arguments == executed'.arguments
            named == NamedStatus(arguments)
            step == arguments.step
        IN  /\ executed'.result.status = SUCCESS
            /\ executed'.result.data = DictData(ProgressRepr(arguments))
            /\ arguments.phase \in DOMAIN state'.phases
            /\ \A key \in DOMAIN state'.phases :
                   LET before == PhaseBefore(key)
                       after == state'.phases[key]
                   IN  IF key = arguments.phase
                       THEN /\ after.status = StatusNamed(named)
                            /\ after.steps_completed =
                                  IF Truthy(step) /\ ~Contains(before.steps_completed, step)
                                  THEN Append(before.steps_completed, step)
                                  ELSE before.steps_completed
                       ELSE /\ after.status = before.status
                            /\ after.steps_completed = before.steps_completed]_vars

\* A completed phase was put back to IN_PROGRESS by a call naming no status.
C26_Witness ==
    /\ ExecutedTool("update_progress")
    /\ "status" \notin DOMAIN executed.arguments
    /\ state.phases[executed.arguments.phase].status = IN_PROGRESS
    /\ state.phases[executed.arguments.phase].completed_at # None

\* ------------------------------------------------------------ the adapter on its own
\* The LLMClient of one agent: constructed by DACLI.__init__, initialized by
\* the host through DACLI.initialize (once: cli.py:482, server.py:304,
\* agent.py:927) and called through generate, in either order.
MaxAdapterCalls == 3

ConfiguredProviders == {"openai", "Anthropic", "google", "openrouter", "mistral"}

\* What the provider's import and constructor do
Constructions == {"constructed", "ImportError", "missing credentials"}

\* What the provider's request does
Answers == {[raises |-> FALSE, text |-> "done"], [raises |-> TRUE, text |-> "adapter error"]}

AdapterUnchanged ==
    UNCHANGED <<config, store, last_call, loop, rendering, executed, catalogue,
                interactive, server, sessions>>

LLMClient(provider) ==
    /\ pc = "idle"
    /\ ~adapter.built
    /\ adapter' = LLMClientInit(provider)
    /\ UNCHANGED clock
    /\ AdapterUnchanged

DACLI_initialize(env) ==
    /\ pc = "idle"
    /\ adapter.built
    /\ clock < MaxAdapterCalls
    /\ ~adapter.initialized
    /\ clock' = clock + 1
    /\ adapter' = DacliInitialize(adapter, env)
    /\ AdapterUnchanged

generate(env, answer) ==
    /\ pc = "idle"
    /\ adapter.built
    /\ clock < MaxAdapterCalls
    /\ clock' = clock + 1
    /\ adapter' = Generate(adapter, env, answer)
    /\ AdapterUnchanged

AdapterInit ==
    /\ Init
    /\ max_iterations = MinMaxIterations
    /\ memory_window = MinMemoryWindow
    /\ on_user_input_needed = FALSE

AdapterNext ==
    \/ \E provider \in ConfiguredProviders : LLMClient(provider)
    \/ \E env \in Constructions : DACLI_initialize(env)
    \/ \E env \in Constructions, answer \in Answers : generate(env, answer)

AdapterSpec == AdapterInit /\ [][AdapterNext]_vars

\* C27: on one adapter instance initialize is performed at most once, no
\* generate call reaches the provider before it, a failed initialization is
\* surfaced to the caller (raised, or reported by DACLI.initialize) and no
\* later call performs initialize again.
C27_InitializedOnce ==
    adapter.built =>
        /\ Len(adapter.attempts) <= 1
        /\ adapter.generate_calls > 0 => Len(adapter.attempts) >= 1
        /\ adapter.attempted = "raised" =>
               \/ adapter.raised # None
               \/ adapter.status # None

\* ------------------------------------------------------------ run_interactive on its own
MaxInputs == 3

UserInputs == {"exit", "status", "load the sales data", "EOF", "^C"}

InteractiveUnchanged ==
    UNCHANGED <<config, store, clock, last_call, loop, adapter, rendering,
                executed, catalogue, server, sessions>>

\* run_interactive is called on an agent with the tools in enabled
run_interactive(enabled, failing) ==
    /\ pc = "idle"
    /\ interactive.at = "new"
    /\ interactive' = RunInteractive(enabled, failing)
    /\ InteractiveUnchanged

\* the user enters a line
read_input(user_input, used, failing) ==
    /\ pc = "idle"
    /\ interactive.at = "prompt"
    /\ interactive.inputs < MaxInputs
    /\ used \subseteq interactive.enabled
    /\ failing \subseteq used
    /\ interactive' = ReadInput(interactive, user_input, used, failing)
    /\ InteractiveUnchanged

InteractiveInit ==
    /\ Init
    /\ max_iterations = MinMaxIterations
    /\ memory_window = MinMemoryWindow
    /\ on_user_input_needed = FALSE

InteractiveNext ==
    \/ \E enabled \in SUBSET HookedTools : \E failing \in SUBSET enabled :
           run_interactive(enabled, failing)
    \/ \E user_input \in UserInputs, used \in SUBSET HookedTools,
          failing \in SUBSET HookedTools :
           read_input(user_input, used, failing)

InteractiveSpec == InteractiveInit /\ [][InteractiveNext]_vars

\* C28: in a session driven by run_interactive every enabled tool's connect
\* hook is invoked once, before the first message is processed, and its
\* disconnect hook once, when the session has ended: never while the loop
\* still reads input, so never between two processed messages.
C28_HooksOncePerSession ==
    \A tool \in interactive.enabled :
        /\ interactive.connects[tool] <= 1
        /\ interactive.at # "new" => interactive.connects[tool] = 1
        /\ interactive.disconnects[tool] <= 1
        /\ interactive.at = "prompt" => interactive.disconnects[tool] = 0
        /\ interactive.at = "ended" => interactive.disconnects[tool] = 1

\* ------------------------------------------------------------ the HTTP front-end on its own
\* Requests arrive at any time; each await of a handler is a point where the
\* event loop may run another handler.
MaxRequests == 3

RequestSessionIds == {None, "default", "s1"}

\* How process_message ends: a final answer, the response of its except
\* clause, or an exception raised before its try block.
ProcessMessageOutcomes ==
    {FinalResponse("done", 1), ErrorResponse("adapter error", 1),
     Raised("state not saved")}

ServerUnchanged ==
    UNCHANGED <<config, store, clock, last_call, loop, adapter, interactive,
                rendering, executed, catalogue, sessions>>

invoke_agent(requested) ==
    /\ pc = "idle"
    /\ Len(server.requests) < MaxRequests
    /\ server' = InvokeAgent(server, requested)
    /\ ServerUnchanged

invoke_returns(r, returned) ==
    /\ pc = "idle"
    /\ r \in DOMAIN server.requests
    /\ server.requests[r].at = "process_message"
    /\ server' = InvokeReturns(server, r, returned)
    /\ ServerUnchanged

reset_session(requested) ==
    /\ pc = "idle"
    /\ requested \in DOMAIN server.cache
    /\ server' = ResetSession(server, requested)
    /\ ServerUnchanged

ServerInit ==
    /\ Init
    /\ max_iterations = MinMaxIterations
    /\ memory_window = MinMemoryWindow
    /\ on_user_input_needed = FALSE

ServerNext ==
    \/ \E requested \in RequestSessionIds : invoke_agent(requested)
    \/ \E r \in 1..MaxRequests, returned \in ProcessMessageOutcomes :
           invoke_returns(r, returned)
    \/ \E requested \in RequestSessionIds : reset_session(requested)

ServerSpec == ServerInit /\ [][ServerNext]_vars

\* C29: no two invoke requests of one session id are inside process_message
\* of the same agent at the same time.
C29_OneInvocationPerSession ==
    \A r1, r2 \in DOMAIN server.requests :
        /\ r1 # r2
        /\ server.requests[r1].at = "process_message"
        /\ server.requests[r2].at = "process_message"
        /\ server.requests[r1].session_id = server.requests[r2].session_id
        => server.requests[r1].agent # server.requests[r2].agent

\* ------------------------------------------------------------ several sessions in one host
\* The host creates a store per session over the same two directories and
\* drives them in any order; the clock reads whole seconds and a second may
\* pass between any two calls.
MaxSessions == 2
MaxSeconds == 2
MaxSessionCalls == 3

SessionsUnchanged ==
    UNCHANGED <<config, store, last_call, loop, adapter, interactive, server,
                rendering, executed, catalogue>>

second_passes ==
    /\ pc = "idle"
    /\ clock < MaxSeconds
    /\ clock' = clock + 1
    /\ UNCHANGED sessions
    /\ SessionsUnchanged

new_session ==
    /\ pc = "idle"
    /\ Len(sessions.stores) < MaxSessions
    /\ sessions' = NewSession(sessions)
    /\ UNCHANGED clock
    /\ SessionsUnchanged

session_add_message(k, role, text) ==
    /\ pc = "idle"
    /\ k \in DOMAIN sessions.stores
    /\ sessions.calls < MaxSessionCalls
    /\ \E out \in {AddMessageCall(sessions.stores[k], sessions.files, role, text, clock)} :
           sessions' = Driven(sessions, k, out)
    /\ UNCHANGED clock
    /\ SessionsUnchanged

session_set_current_phase(k, phase) ==
    /\ pc = "idle"
    /\ k \in DOMAIN sessions.stores
    /\ sessions.calls < MaxSessionCalls
    /\ \E out \in {SetCurrentPhase(sessions.stores[k], sessions.files, phase, clock)} :
           sessions' = Driven(sessions, k, out)
    /\ UNCHANGED clock
    /\ SessionsUnchanged

SessionsInit ==
    /\ Init
    /\ max_iterations = MinMaxIterations
    /\ memory_window = MinMemoryWindow
    /\ on_user_input_needed = FALSE

SessionsNext ==
    \/ second_passes
    \/ new_session
    \/ \E k \in 1..MaxSessions, msg \in StoreMessages :
           session_add_message(k, msg[1], msg[2])
    \/ \E k \in 1..MaxSessions : session_set_current_phase(k, "phase_1_discovery")

SessionsSpec == SessionsInit /\ [][SessionsNext]_vars

\* The sessions of the host that have their session id
WithId(host) == {k \in DOMAIN host.stores : host.stores[k].session_id # None}

\* The file of session id in a directory, if there is one
FileOf(dir, id) == IF id \in DOMAIN dir THEN <<dir[id]>> ELSE <<>>

\* C30: the sessions of one host have session ids different from one another,
\* and a call on one session's store leaves the state file and the history
\* file of every other session as they were.
C30_SessionsKeepApart ==
    /\ [](\A j, k \in WithId(sessions) :
             j # k => sessions.stores[j].session_id # sessions.stores[k].session_id)
    /\ [][\A j \in WithId(sessions) :
             j # sessions'.driven =>
                 LET id == sessions.stores[j].session_id
                 IN  /\ FileOf(sessions'.files.state, id) = FileOf(sessions.files.state, id)
                     /\ FileOf(sessions'.files.history, id) = FileOf(sessions.files.history, id)]_vars

\* ------------------------------------------------------------ the working context
\* The positions of the assistant turns of a context that carry tool calls
CallingTurns(context) ==
    {i \in DOMAIN context :
        /\ context[i].role = "assistant"
        /\ "tool_calls" \in DOMAIN context[i]}

\* The positions of the tool-role messages of a context with the id
ToolTurns(context, id) ==
    {j \in DOMAIN context :
        /\ context[j].role = "tool"
        /\ context[j].tool_call_id = id}

\* Every tool-call id of an assistant turn has exactly one tool-role message,
\* after that turn and before the next assistant turn.
Paired(context) ==
    \A i \in CallingTurns(context) :
        \A k \in DOMAIN context[i].tool_calls :
            LET answers == ToolTurns(context, context[i].tool_calls[k].id)
            IN  /\ Cardinality(answers) = 1
                /\ \A j \in answers :
                      /\ j > i
                      /\ \A between \in (i + 1)..(j - 1) :
                            context[between].role # "assistant"

\* C31: at every adapter call after the first of an invocation, every
\* tool-call id carried by an assistant turn of the working context handed to
\* the adapter has exactly one tool-role message with that id, after that
\* assistant turn and before the next one.
C31_ToolCallsAnswered ==
    [][adapter_calls' = adapter_calls + 1 /\ adapter_calls >= 1 => Paired(messages)]_vars

\* The adapter was called a second time with a context whose first assistant
\* turn carries two tool calls, both answered.
C31_Witness ==
    /\ adapter_calls >= 2
    /\ \E i \in CallingTurns(messages) :
          /\ Len(messages[i].tool_calls) = 2
          /\ \A k \in 1..2 : ToolTurns(messages, messages[i].tool_calls[k].id) # {}

\* ------------------------------------------------------------ the capabilities and the dispatch
\* An agent built from a configuration, and _execute_tool called on it with
\* the names of the catalogue and of the registry.
RegistryOperations == UNION {OperationsOf(category) : category \in ToolCategories}

RequestableNames == RegistryOperations \cup {"request_user_input", "update_progress"}

\* The arguments of the calls made
CallArguments(tool_name) ==
    IF tool_name = "update_progress"
    THEN ProgressArgs("phase_0_infrastructure", "create database", <<>>)
    ELSE ArgumentsOf(tool_name)

\* What can happen when the branch of tool_name runs on an agent built from
\* tools_settings: the call on a tool that was not instantiated raises; an
\* instantiated tool answers or reports a failure.
Outcomes(tools_settings, tool_name, callback) ==
    IF CollaboratorOf(tool_name) = None
    THEN Environments(tool_name, callback)
    ELSE IF ~IsToolEnabled(tools_settings, CollaboratorOf(tool_name))
    THEN {"raise"}
    ELSE {"rows", "error"}

execute_tool(tool_name, env) ==
    /\ catalogue.built
    /\ env \in Outcomes(catalogue.tools_settings, tool_name, on_user_input_needed)
    /\ ExecuteToolDirect(tool_name, CallArguments(tool_name), env)

CapabilityInit ==
    /\ Init
    /\ max_iterations = MinMaxIterations
    /\ memory_window = MinMemoryWindow

CapabilityNext ==
    \/ \E enabled \in BOOLEAN \X BOOLEAN \X BOOLEAN, listing \in {"none", "all", "first_off"} :
           DACLI_init(enabled, <<listing, listing, listing>>)
    \/ \E tool_name \in RequestableNames, env \in {"rows", "error", "raise", "answer", "none"} :
           execute_tool(tool_name, env)

CapabilitySpec == CapabilityInit /\ [][CapabilityNext]_vars

\* The branch of the last call reached the tool object of its category.
ReachedCollaborator ==
    /\ executed.done
    /\ CollaboratorOf(executed.tool_name) # None
    /\ IsToolEnabled(catalogue.tools_settings, CollaboratorOf(executed.tool_name))

\* C32: a call naming a descriptor of the catalogue never ends as "Unknown
\* tool" and never fails because the tool has no handler for the operation
\* the name is mapped to.
C32_CatalogueNamesHaveHandlers ==
    executed.done /\ InCatalogue(executed.tool_name, catalogue.tools) =>
        /\ executed.result.error # "Unknown tool: " \o executed.tool_name
        /\ executed.tool_name \in DOMAIN GithubOperations =>
              executed.result.error # NoHandlerText(GithubOperations[executed.tool_name])

\* The category of the registry an operation belongs to
CategoryOf(operation) == CHOOSE category \in ToolCategories : operation \in OperationsOf(category)

\* C33: a call naming an operation of the registry whose category is disabled,
\* or which is not enabled inside its enabled category, does not reach the
\* tool object and returns an ERROR result.
C33_DisabledOperationsNotDispatched ==
    /\ executed.done
    /\ executed.tool_name \in RegistryOperations
    /\ ~EnabledInCategory(catalogue.tools_settings, CategoryOf(executed.tool_name),
                          executed.tool_name)
    => /\ ~ReachedCollaborator
       /\ executed.result.status = ERROR

\* The record log_tool_execution appended for the last call of _execute_tool
LastLogged == tool_history[Len(tool_history)]

\* C34: the record logged for a tool call has the status "success" if and
\* only if the result of the call has the status SUCCESS.
C34_LoggedStatusIsResultStatus ==
    executed.done =>
        /\ Len(tool_history) > 0
        /\ LastLogged.tool_name = executed.tool_name
        /\ LastLogged.status = "success" <=> executed.result.status = SUCCESS

\* ------------------------------------------------------------ load_session and damaged files
\* Sessions are written by one store and loaded by another; what a load finds
\* on disk may have been damaged from outside since it was written.
load_session_found(id, found) ==
    /\ pc = "idle"
    /\ clock < MaxStoreCalls
    /\ clock' = clock + 1
    /\ \E r \in {LoadSessionFound(Memory, Files, id, found)} :
           /\ Becomes(Outcome(r.memory, Files, None))
           /\ last_call' = Call("load_session", <<id, found>>, None,
                                IF r.returned THEN "True" ELSE "False")
    /\ UNCHANGED <<config, elsewhere, loop>>

LoadNext ==
    \/ AgentMemory_init
    \/ \E msg \in StoreMessages : add_message(msg[1], msg[2])
    \/ \E r \in LoggedResults : log_tool_execution(r[1], r[2])
    \/ \E id \in LoadableIds, found \in FilesFound : load_session_found(id, found)

LoadSpec == StoreInit /\ [][LoadNext]_vars

\* C35: whenever load_session returns False, for a missing file or for a file
\* that cannot be deserialized, the session id, the state, the message list
\* and the tool-execution log are what they were before the call.
C35_FailedLoadChangesNothing ==
    [][(StoreStep("load_session") /\ last_call'.returned = "False") =>
            UNCHANGED <<session_id, state, memory_messages, tool_history>>]_vars

\* C36: the iteration reported by the response of an invocation is the number
\* of adapter calls made during that invocation, whatever the invocations
\* before it did.
C36_IterationCountsAdapterCalls ==
    Returned => response.iteration = adapter_calls

\* A second invocation returned a final answer after one adapter call, the
\* first invocation having executed tool calls.
C36_Witness ==
    /\ Returned
    /\ invocations = 2
    /\ response.error = None
    /\ ~response.needs_user_input
    /\ response.iteration = 1
    /\ Len(tool_history) > 0

\* C37: the front-end creates an agent for a session id only when none is
\* cached under that id, and a request that arrives is served by the agent
\* cached under its session id: the one already there when there is one.
C37_OneAgentPerSession ==
    [][IF Len(server'.requests) = Len(server.requests) + 1
       THEN LET r == Len(server'.requests)
                sid == server'.requests[r].session_id
            IN  /\ sid \in DOMAIN server'.cache
                /\ server'.requests[r].agent = server'.cache[sid]
                /\ \A k \in DOMAIN server.cache : server'.cache[k] = server.cache[k]
                /\ server'.agents = IF sid \in DOMAIN server.cache
                                    THEN server.agents ELSE server.agents + 1
       ELSE server'.agents = server.agents]_vars

\* C37: a third request arrives for a session id whose agent is cached and
\* already serves two requests, one of them still in process_message.
C37_Witness ==
    /\ Len(server.requests) = 3
    /\ server.agents = 1
    /\ \A r \in 1..3 : /\ server.requests[r].session_id = "s1"
                       /\ server.requests[r].agent = server.cache["s1"]
    /\ server.requests[1].at = "process_message"

\* C38: a request is answered with status "success" only when the response
\* of process_message carries no error, and a response with its error set
\* reaches the client as an error that carries that error string.
C38_ErrorsSurfaced ==
    \A r \in DOMAIN server.requests :
        LET req == server.requests[r]
        IN  req.at = "done" /\ req.response.kind = "response" =>
                /\ req.answer.status = "success" => req.response.error = None
                /\ req.response.error # None =>
                       /\ req.answer.status # "success"
                       /\ req.response.error \in {req.answer.error, req.answer.detail}

\* ------------------------------------------------------------ errors of a session
\* update_phase is called with and without an error, on a phase of the new
\* state and on one it has to add; the process may be restarted and a session
\* loaded in between.
ErrorCalls ==
    {<<"phase_3_load", FAILED, <<>>, "", "copy failed">>,
     <<"cleanup", None, <<>>, "", "drop failed">>,
     <<"phase_3_load", IN_PROGRESS, <<>>, "stage files", None>>,
     <<"phase_3_load", None, <<>>, "", "">>}

ErrorsNext ==
    \/ AgentMemory_init
    \/ \E c \in ErrorCalls : update_phase(c[1], c[2], c[3], c[4], c[5])
    \/ \E id \in LoadableIds : load_session(id)

ErrorsSpec == StoreInit /\ [][ErrorsNext]_vars

\* The number of error strings in the phases named
RECURSIVE ErrorsIn(_, _)
ErrorsIn(phases, keys) ==
    IF keys = {} THEN 0
    ELSE LET k == CHOOSE x \in keys : TRUE
         IN  Len(phases[k].errors) + ErrorsIn(phases, keys \ {k})

\* C39: in every state of a session errors_count is the number of error
\* strings held by all its phases together, last_error is unset exactly when
\* there is none and is otherwise the last string of some phase, and a call
\* of update_phase with an error leaves that error as last_error.
C39_ErrorsCounted ==
    /\ [](state # NoState =>
            /\ state.errors_count = ErrorsIn(state.phases, DOMAIN state.phases)
            /\ state.last_error = None <=> state.errors_count = 0
            /\ state.last_error # None =>
                   \E k \in DOMAIN state.phases :
                       /\ Len(state.phases[k].errors) > 0
                       /\ state.phases[k].errors[Len(state.phases[k].errors)]
                              = state.last_error)
    /\ [][last_call'.op = "update_phase" =>
             IF Truthy(last_call'.args[5])
             THEN /\ state'.last_error = last_call'.args[5]
                  /\ state'.errors_count =
                         (IF state = NoState THEN 0 ELSE state.errors_count) + 1
             ELSE /\ state # NoState => /\ state'.last_error = state.last_error
                                        /\ state'.errors_count = state.errors_count
                  /\ state = NoState => /\ state'.last_error = None
                                        /\ state'.errors_count = 0]_vars

\* C39: three errors were recorded over two phases, one of them added by the
\* call, and the last one recorded is not the last one of the other phase.
C39_Witness ==
    /\ state # NoState
    /\ state.errors_count = 3
    /\ "cleanup" \in DOMAIN state.phases
    /\ Len(state.phases["cleanup"].errors) = 1
    /\ Len(state.phases["phase_3_load"].errors) = 2
    /\ state.last_error = "drop failed"

====
